---- MODULE Spec2Model ----
(***************************************************************************)
(* Outage monitor bot: the Source Monitor (one check task per source),     *)
(* the Process Supervisor (BotProcess) and its backoff schedule.           *)
(*                                                                         *)
(* Spec       check tasks, pause and resume, inbound heartbeats            *)
(* UpdateSpec check tasks while sources are updated and paused             *)
(* LifeSpec   check tasks while the supervisor stops and starts            *)
(* SupSpec    the Process Supervisor, its lock and its restart timer       *)
(* GraceSpec  the passive grace-period check as a function of its inputs   *)
(* BackoffSpec the backoff delay as a function of its inputs               *)
(* RegSpec    AddSource and RemoveSource on two monitored sources          *)
(* ConfSpec   configuration writes and reads while restarts run or hang   *)
(* StatusSpec the supervisor with GetStatus read in between                *)
(* HeartbeatSpec inbound heartbeats, accepted and refused                  *)
(* ResumeSpec pause and resume while the supervisor stops and starts       *)
(* FaultSpec  check tasks while the store fails                            *)
(* StartSpec  Monitor.Start while the store fails                          *)
(* HealthSpec the supervisor while GET /health reads it                    *)
(* AuthSpec   requests through the API key middleware                      *)
(* LockSpec   pause and resume as lock, persistence write, unlock          *)
(* CancelSpec the supervisor when the bot ends only by cancellation        *)
(* LiveSpec   the supervisor under fair scheduling                         *)
(***************************************************************************)
EXTENDS Integers, Sequences, FiniteSets, TLC

\* ---------------------------------------------------------------- bounds
MaxTime == 5          \* the clock stops at MaxTime
ShortTime == 2        \* ... at ShortTime where removal and restart are explored
MaxTasks == 2         \* check goroutines ever spawned
MaxGen == 2           \* successful supervisor starts
MaxAttempts == 4      \* restart attempts given to the backoff computation
MaxChanges == 2       \* restart goroutines of configuration changes at a time

\* ------------------------------------------------------ program constants
DefaultGraceMult10 == 25   \* 2.5, in tenths
CheckInterval == 1         \* the check interval of the modelled source
StatusUnknown == -1
StatusOffline == 0
StatusOnline == 1

Ids == {"s1", "s2"}
OneSource == {"s1"}   \* where the checks of a single source are explored
SourceTypes == {"ping", "webhook"}   \* "http" is checked and handled as "ping"
Background == 0            \* context.Background(): never cancelled

\* the restart schedule's defaults, in seconds; the multiplier in tenths
AutoRestartDelay == 30
AutoRestartBackoffMultiplier10 == 20
AutoRestartMaxDelay == 300

VARIABLES
    now,             \* wall clock, read by time.Now()
    db,              \* sources bucket: id -> persisted Source
    events,          \* status_changes bucket: the persisted StatusChange records
    notified,        \* onStatusChange goroutines started, counted per change
    tasks,           \* every monitorSource goroutine ever spawned, with its *Source
    cache,           \* Monitor.sources: id -> index of the cached *Source (0: absent)
    activeMonitors,  \* Monitor.activeMonitors: id -> index of the task it cancels
    bpGen,           \* number of BotProcess starts; names bp.ctx and bp.monitor
    bpRunning,       \* bp.running (bp.monitor is nil when false)
    hasCallback,     \* Monitor.onStatusChange != nil (false in web-only mode)
    hb,              \* inbound heartbeat between its persist and its cache update
    storageUp,       \* FALSE while bolt reads and writes return an error
    healthy,         \* bp.healthy
    lastError,       \* bp.lastError: "none" is nil
    restartAttempts, \* bp.restartAttempts
    restartTimer,    \* bp.restartTimer: set is "not nil", pending is "will fire"
    config,          \* bp.config
    mu,              \* bp.mu: the thread that holds it, or Free
    thr,             \* the goroutines that call into the supervisor
    conf,            \* the ConfigManager's current configuration
    grace,           \* one passive grace-period check: its inputs and result
    backoff,         \* one backoff computation: its inputs and result
    call,            \* the last AddSource, RemoveSource or heartbeat call and its error
    cmMu,            \* ConfigManager.mu: the writer that holds it, or Free
    report,          \* what the last GetStatus call returned
    health,          \* GET /health in progress: what it has read, and its answer
    http,            \* the last request the API key middleware saw, and its answer
    sourcesMu,       \* m.sourcesMu: the PauseSource or ResumeSource call that holds it
    saved            \* the configuration as persisted by SaveConfig

\* the supervisor's own state
supVars == <<healthy, lastError, restartAttempts, restartTimer, config, mu,
             thr, conf>>

\* what the supervisor's operations leave alone in the monitor
monData == <<now, db, events, notified, hb>>

\* ------------------------------------------------------------ data model
NoRec == [type |-> "absent", status |-> StatusUnknown, lastCheck |-> 0,
          lastChange |-> 0, enabled |-> FALSE, mult10 |-> 0, token |-> FALSE]

NoChange == [old |-> StatusUnknown, new |-> StatusUnknown, ts |-> 0, dur |-> 0]

NoHb == [id |-> "", ts |-> 0]

NoGrace == [lastCheck |-> 0, interval |-> 0, mult10 |-> 0, tnow |-> 0,
            done |-> FALSE, status |-> StatusUnknown]

NoBackoff == [base |-> 0, mult10 |-> 0, max |-> 0, attempts |-> 0,
              done |-> FALSE, delay |-> 0]

NoCall == [op |-> "none", id |-> "", err |-> "nil"]

\* before the first request
NoHttp == [seq |-> 0, path |-> <<>>, key |-> "", status |-> 0]

\* m.sourcesMu unlocked
NoLock == [pc |-> "free", id |-> "", source |-> NoRec]

Statuses == {StatusUnknown, StatusOffline, StatusOnline}

Notifications == [id : Ids, old : Statuses, new : {StatusOffline, StatusOnline},
                  ts : 1..MaxTime]

\* storage.Source; the zero time.Time is 0, GracePeriodMultiplier is in tenths,
\* token is WebhookToken # ""
Source(type, status, lastCheck, lastChange, enabled, mult10, token) ==
    [type |-> type, status |-> status, lastCheck |-> lastCheck,
     lastChange |-> lastChange, enabled |-> enabled, mult10 |-> mult10,
     token |-> token]

NTasks == Len(tasks)
TaskIds == 1..NTasks

\* ctx.Done() of a task: its own cancel was called, or its parent context
\* (bp.ctx of generation ctx) was cancelled by Stop.
BpCtxCancelled(g) == g # Background /\ (g < bpGen \/ ~bpRunning)

CtxDone(t) == tasks[t].cancelled \/ BpCtxCancelled(tasks[t].ctx)

Alive(t) == tasks[t].pc # "done"

\* inside performCheck: checking, persisting or notifying
InCheck(t) == tasks[t].pc \in {"probing", "save", "update", "mem", "touch"}

\* ------------------------------------------------------------- storage
\* BoltDB.UpdateSourceStatus: one bolt transaction
UpdateSourceStatus(rec, status, checkTime) ==
    [rec EXCEPT !.status = status,
                !.lastCheck = checkTime,
                !.lastChange = IF status # rec.status THEN checkTime ELSE @]

\* BoltDB.SaveStatusChange: Put under the key sourceID:timestamp
SaveStatusChange(evs, id, change) ==
    {e \in evs : ~(e.id = id /\ e.ts = change.ts)}
        \cup {[id |-> id, old |-> change.old, new |-> change.new,
               ts |-> change.ts, dur |-> change.dur]}

\* ------------------------------------------------------------- checks
\* variant: offline from the deadline itself on
checkWebhookSourceEarly(lastCheck, interval, mult10, tnow) ==
    IF lastCheck = 0 THEN StatusOffline
    ELSE LET mult == IF mult10 <= 0 THEN DefaultGraceMult10 ELSE mult10
             graceDuration == (interval * mult) \div 10
             deadline == lastCheck + graceDuration
         IN IF tnow >= deadline THEN StatusOffline ELSE StatusOnline

\* Monitor.checkWebhookSource; interval and times in one unit, mult in tenths
checkWebhookSource(lastCheck, interval, mult10, tnow) ==
    IF lastCheck = 0 THEN StatusOffline
    ELSE LET mult == IF mult10 <= 0 THEN DefaultGraceMult10 ELSE mult10
             graceDuration == (interval * mult) \div 10
             deadline == lastCheck + graceDuration
         IN IF tnow > deadline THEN StatusOffline ELSE StatusOnline

\* Monitor.CheckSource: the possible results of one check of src at time tnow
CheckSource(src, tnow) ==
    CASE src.type = "ping" -> {StatusOffline, StatusOnline}
      [] src.type = "http" -> {StatusOffline, StatusOnline}
      [] src.type = "webhook" ->
            {checkWebhookSource(src.lastCheck, CheckInterval, src.mult10, tnow)}
      [] OTHER -> {StatusOffline}

\* ------------------------------------------------------------- Monitor
\* the Monitor's maps and the goroutines, as one value the operations transform
Mon == [gen |-> bpGen, cb |-> hasCallback,
        tasks |-> tasks, cache |-> cache, active |-> activeMonitors]

NoSources == [i \in Ids |-> 0]

\* monitor.New: empty maps; the goroutines of earlier monitors live on
New(gen, callback) ==
    [gen |-> gen, cb |-> callback,
     tasks |-> tasks, cache |-> NoSources, active |-> NoSources]

\* go m.monitorSource(sourceCtx, source): mon and cb are the receiver m
NewTask(m, id, src, ctx) ==
    [id |-> id, src |-> src, pc |-> "init", ctx |-> ctx, cancelled |-> FALSE,
     mon |-> m.gen, cb |-> m.cb, tick |-> FALSE, checkTime |-> 0,
     newStatus |-> StatusUnknown, change |-> NoChange]

\* variant: AddSource without the test of activeMonitors
AddSourceOkAlways(m, id) == TRUE

\* Monitor.AddSource: error (state unchanged) when the id is registered
AddSourceOk(m, id) == m.active[id] = 0

AddSource(m, ctx, id, src) ==
    IF ~AddSourceOk(m, id) THEN m
    ELSE LET k == Len(m.tasks) + 1
         IN [m EXCEPT !.tasks = Append(m.tasks, NewTask(m, id, src, ctx)),
                      !.cache = [m.cache EXCEPT ![id] = k],
                      !.active = [m.active EXCEPT ![id] = k]]

\* variant: RemoveSource empties the whole cache
RemoveSourceClearsCache(m, id) ==
    IF m.active[id] = 0 THEN m
    ELSE [m EXCEPT !.tasks = [m.tasks EXCEPT ![m.active[id]].cancelled = TRUE],
                   !.cache = NoSources,
                   !.active = [m.active EXCEPT ![id] = 0]]

\* Monitor.RemoveSource: cancel() and the two deletes; it does not wait for
\* the goroutine to return
RemoveSource(m, id) ==
    IF m.active[id] = 0 THEN m
    ELSE [m EXCEPT !.tasks = [m.tasks EXCEPT ![m.active[id]].cancelled = TRUE],
                   !.cache = [m.cache EXCEPT ![id] = 0],
                   !.active = [m.active EXCEPT ![id] = 0]]

SetMon(m) ==
    /\ tasks' = m.tasks
    /\ cache' = m.cache
    /\ activeMonitors' = m.active

\* time passes; at every CheckInterval each running ticker delivers a tick
\* (the channel holds one)
Advance(limit) ==
    /\ now < limit
    /\ now' = now + 1
    /\ tasks' = [t \in TaskIds |->
                   IF Alive(t) /\ (now + 1) % CheckInterval = 0
                     THEN [tasks[t] EXCEPT !.tick = TRUE] ELSE tasks[t]]
    /\ UNCHANGED <<db, events, notified, cache, activeMonitors,
                   bpGen, bpRunning, hasCallback, hb, storageUp, supVars, grace,
                   backoff, call, cmMu,
                   report, health, http, sourcesMu, saved>>

\* Monitor.Start: one AddSource per enabled persisted source
RECURSIVE StartSources(_, _)
StartSources(m, S) ==
    IF S = {} THEN m
    ELSE LET id == CHOOSE i \in S : TRUE
         IN StartSources(AddSource(m, m.gen, id, db[id]), S \ {id})

GetEnabledSources == {i \in Ids : db[i] # NoRec /\ db[i].enabled}

\* ------------------------------------------------------------ handlers
\* POST /sources: the new source is saved with status unknown, then monitored
handleCreateSource(id, type) ==
    /\ db[id] = NoRec
    /\ storageUp
    /\ bpRunning => NTasks < MaxTasks
    /\ LET source == Source(type, StatusUnknown, 0, now, TRUE,
                            DefaultGraceMult10, type = "webhook")
       IN /\ db' = [db EXCEPT ![id] = source]
          /\ IF bpRunning
                THEN SetMon(AddSource(Mon, bpGen, id, source))
                ELSE UNCHANGED <<tasks, cache, activeMonitors>>
    /\ UNCHANGED <<now, events, notified, bpGen, bpRunning, hasCallback,
                   hb, storageUp, supVars, grace,
                   backoff, call, cmMu,
                   report, health, http, sourcesMu, saved>>

\* chat /add_source: an initial check fixes the starting status; the task is
\* started under context.Background()
handleAddSource(id, type, initialStatus) ==
    /\ bpRunning /\ hasCallback
    /\ db[id] = NoRec
    /\ storageUp
    /\ NTasks < MaxTasks
    /\ type \in {"ping", "http"}
    /\ LET source == Source(type, initialStatus, now, now, TRUE, 0, FALSE)
       IN /\ db' = [db EXCEPT ![id] = source]
          /\ SetMon(AddSource(Mon, Background, id, source))
    /\ UNCHANGED <<now, events, notified, bpGen, bpRunning, hasCallback,
                   hb, storageUp, supVars, grace,
                   backoff, call, cmMu,
                   report, health, http, sourcesMu, saved>>

\* PUT /sources/:id: save, then RemoveSource and (when enabled) AddSource
handleUpdateSource(id, type, enabled) ==
    /\ db[id] # NoRec
    /\ storageUp
    /\ (bpRunning /\ enabled) => NTasks < MaxTasks
    /\ LET source == [db[id] EXCEPT !.type = type, !.enabled = enabled]
           removed == RemoveSource(Mon, id)
       IN /\ db' = [db EXCEPT ![id] = source]
          /\ IF bpRunning
                THEN SetMon(IF enabled THEN AddSource(removed, bpGen, id, source)
                                       ELSE removed)
                ELSE UNCHANGED <<tasks, cache, activeMonitors>>
    /\ UNCHANGED <<now, events, notified, bpGen, bpRunning,
                   hasCallback, hb, storageUp, supVars, grace,
                   backoff, call, cmMu,
                   report, health, http, sourcesMu, saved>>

\* a handler calls Monitor.AddSource(ctx, source) with the persisted source
\* and gets its error
MonitorAddSource(id) ==
    /\ bpRunning
    /\ db[id] # NoRec
    /\ NTasks <= MaxTasks
    /\ call' = [op |-> "AddSource", id |-> id,
                err |-> IF AddSourceOk(Mon, id) THEN "nil"
                                                ELSE "AlreadyMonitored"]
    /\ SetMon(AddSource(Mon, bpGen, id, db[id]))
    /\ UNCHANGED <<now, db, events, notified, bpGen, bpRunning, hasCallback,
                   hb, storageUp, supVars, grace, backoff, cmMu,
                   report, health, http, sourcesMu, saved>>

\* a handler calls Monitor.RemoveSource(sourceID) and gets its error
MonitorRemoveSource(id) ==
    /\ bpRunning
    /\ call' = [op |-> "RemoveSource", id |-> id,
                err |-> IF activeMonitors[id] # 0 THEN "nil"
                                                  ELSE "NotMonitored"]
    /\ SetMon(RemoveSource(Mon, id))
    /\ UNCHANGED <<now, db, events, notified, bpGen, bpRunning, hasCallback,
                   hb, storageUp, supVars, grace, backoff, cmMu,
                   report, health, http, sourcesMu, saved>>

\* Monitor.PauseSource / ResumeSource: set Enabled on the cached *Source (or on
\* a copy read from storage) and write the whole record with UpdateSource
SetEnabled(id, enabled) ==
    /\ bpRunning
    /\ IF cache[id] # 0
         THEN LET k == cache[id]
                  source == [tasks[k].src EXCEPT !.enabled = enabled]
              IN /\ tasks' = [tasks EXCEPT ![k].src = source]
                 /\ db' = IF storageUp THEN [db EXCEPT ![id] = source] ELSE db
         ELSE /\ db[id] # NoRec
              /\ db' = IF storageUp THEN [db EXCEPT ![id].enabled = enabled] ELSE db
              /\ UNCHANGED tasks
    /\ UNCHANGED <<now, events, notified, cache, activeMonitors,
                   bpGen, bpRunning, hasCallback, hb, storageUp, supVars, grace,
                   backoff, call, cmMu,
                   report, health, http, sourcesMu, saved>>

\* PauseSource / ResumeSource from m.sourcesMu.Lock() to the call of
\* storage.UpdateSource: the cached *Source (or a copy read from storage) gets
\* its Enabled
SetEnabledLocked(id, enabled) ==
    /\ bpRunning
    /\ sourcesMu = NoLock
    /\ IF cache[id] # 0
         THEN LET k == cache[id]
                  source == [tasks[k].src EXCEPT !.enabled = enabled]
              IN /\ tasks' = [tasks EXCEPT ![k].src = source]
                 /\ sourcesMu' = [pc |-> "UpdateSource", id |-> id,
                                  source |-> source]
         ELSE /\ db[id] # NoRec
              /\ sourcesMu' = [pc |-> "UpdateSource", id |-> id,
                               source |-> [db[id] EXCEPT !.enabled = enabled]]
              /\ UNCHANGED tasks
    /\ UNCHANGED <<now, db, events, notified, cache, activeMonitors,
                   bpGen, bpRunning, hasCallback, hb, storageUp, supVars, grace,
                   backoff, call, cmMu, report, health, http, saved>>

\* storage.UpdateSource returns to PauseSource / ResumeSource, and the
\* deferred m.sourcesMu.Unlock()
SetEnabledUpdateSource ==
    /\ sourcesMu.pc = "UpdateSource"
    /\ db' = IF storageUp THEN [db EXCEPT ![sourcesMu.id] = sourcesMu.source]
                          ELSE db
    /\ sourcesMu' = NoLock
    /\ UNCHANGED <<now, events, notified, tasks, cache, activeMonitors,
                   bpGen, bpRunning, hasCallback, hb, storageUp, supVars, grace,
                   backoff, call, cmMu, report, health, http, saved>>

PauseSource(id) == SetEnabled(id, FALSE)

ResumeSource(id) == SetEnabled(id, TRUE)

\* handleIncomingWebhook, first half: the heartbeat is persisted
IncomingWebhookPersist(id) ==
    /\ hb = NoHb
    /\ db[id] # NoRec /\ db[id].token /\ db[id].enabled
    /\ storageUp
    /\ db' = [db EXCEPT ![id] = UpdateSourceStatus(@, StatusOnline, now)]
    /\ hb' = [id |-> id, ts |-> now]
    /\ UNCHANGED <<now, events, notified, tasks, cache, activeMonitors,
                   bpGen, bpRunning, hasCallback, storageUp, supVars, grace,
                   backoff, call, cmMu,
                   report, health, http, sourcesMu, saved>>

\* Monitor.RecordWebhookReceived: LastCheckTime and CurrentStatus of the
\* cached source; LastChangeTime is not touched
RecordWebhookReceived(ts_, id, receivedAt) ==
    IF cache[id] = 0 THEN ts_
    ELSE [ts_ EXCEPT ![cache[id]].src.lastCheck = receivedAt,
                     ![cache[id]].src.status = StatusOnline]

\* handleIncomingWebhook, second half: the monitor's cache is told
IncomingWebhookRecord ==
    /\ hb # NoHb
    /\ tasks' = IF bpRunning THEN RecordWebhookReceived(tasks, hb.id, hb.ts)
                            ELSE tasks
    /\ hb' = NoHb
    /\ UNCHANGED <<now, db, events, notified, cache, activeMonitors,
                   bpGen, bpRunning, hasCallback, storageUp, supVars, grace,
                   backoff, call, cmMu,
                   report, health, http, sourcesMu, saved>>

\* variant: the heartbeat is persisted before the request is validated
handleIncomingWebhookEarly(id, valid) ==
    /\ hb = NoHb
    /\ LET found == db[id] # NoRec /\ db[id].token
           err == IF ~storageUp \/ ~found THEN "NotFound"
                  ELSE IF ~db[id].enabled THEN "Paused"
                  ELSE IF ~valid THEN "Unauthorized"
                  ELSE "nil"
       IN /\ call' = [op |-> "IncomingWebhook", id |-> id, err |-> err]
          /\ IF err \in {"nil", "Unauthorized"}
               THEN /\ db' = [db EXCEPT
                                ![id] = UpdateSourceStatus(@, StatusOnline, now)]
                    /\ hb' = IF err = "nil" THEN [id |-> id, ts |-> now]
                                            ELSE hb
               ELSE UNCHANGED <<db, hb>>
    /\ UNCHANGED <<now, events, notified, tasks, cache, activeMonitors,
                   bpGen, bpRunning, hasCallback, storageUp, supVars, grace,
                   backoff, cmMu,
                   report, health, http, sourcesMu, saved>>

\* handleIncomingWebhook up to the persisted heartbeat, with its response:
\* the token is looked up, a paused source is answered at once, the expected
\* headers and content are compared (valid), UpdateSourceStatus(id, 1, now)
handleIncomingWebhook(id, valid) ==
    /\ hb = NoHb
    /\ LET found == db[id] # NoRec /\ db[id].token
           err == IF ~storageUp \/ ~found THEN "NotFound"
                  ELSE IF ~db[id].enabled THEN "Paused"
                  ELSE IF ~valid THEN "Unauthorized"
                  ELSE "nil"
       IN /\ call' = [op |-> "IncomingWebhook", id |-> id, err |-> err]
          /\ IF err = "nil"
               THEN /\ db' = [db EXCEPT
                                ![id] = UpdateSourceStatus(@, StatusOnline, now)]
                    /\ hb' = [id |-> id, ts |-> now]
               ELSE UNCHANGED <<db, hb>>
    /\ UNCHANGED <<now, events, notified, tasks, cache, activeMonitors,
                   bpGen, bpRunning, hasCallback, storageUp, supVars, grace,
                   backoff, cmMu,
                   report, health, http, sourcesMu, saved>>

\* ---------------------------------------------------- the check goroutine
\* performCheck returns to the select: its locals are gone; checkTime stays
\* as the goroutine's last reading of the clock
Returned(task) ==
    [task EXCEPT !.pc = "wait", !.newStatus = StatusUnknown, !.change = NoChange]

\* monitorSource returns: the goroutine and its ticker are gone; the *Source
\* stays reachable only through the cache
Exited(task) == [task EXCEPT !.pc = "done", !.tick = FALSE]

\* monitorSource: the initial check, or the ticker case of the select;
\* performCheck returns at once for a disabled source, else takes checkTime.
\* Two readings of the clock by one goroutine differ (nanoseconds).
TaskBegin(t) ==
    /\ t \in TaskIds
    /\ tasks[t].pc = "init" \/ (tasks[t].pc = "wait" /\ tasks[t].tick)
    /\ tasks[t].src.enabled => now > tasks[t].checkTime
    /\ IF ~tasks[t].src.enabled
         THEN tasks' = [tasks EXCEPT ![t].pc = "wait",
                                     ![t].tick = (tasks[t].pc = "init" /\ @)]
         ELSE tasks' = [tasks EXCEPT ![t].pc = "probing",
                                     ![t].tick = (tasks[t].pc = "init" /\ @),
                                     ![t].checkTime = now]
    /\ UNCHANGED <<now, db, events, notified, cache, activeMonitors,
                   bpGen, bpRunning, hasCallback, hb, storageUp, supVars, grace,
                   backoff, call, cmMu,
                   report, health, http, sourcesMu, saved>>

\* performCheck after CheckSource returned newStatus: LastCheckTime of an
\* active source, the comparison, and the StatusChange of a transition
\* variant: a transition goes straight to the notification, nothing persisted
CompareNotifyFirst(task, newStatus) ==
    LET src == IF task.src.type # "webhook"
                 THEN [task.src EXCEPT !.lastCheck = task.checkTime]
                 ELSE task.src
    IN IF newStatus # src.status
         THEN [task EXCEPT !.src = src, !.newStatus = newStatus, !.pc = "mem",
                           !.change = [old |-> src.status, new |-> newStatus,
                                       ts |-> task.checkTime,
                                       dur |-> task.checkTime - src.lastChange]]
         ELSE [task EXCEPT !.src = src, !.newStatus = newStatus, !.pc = "touch",
                           !.change = NoChange]

Compare(task, newStatus) ==
    LET src == IF task.src.type # "webhook"
                 THEN [task.src EXCEPT !.lastCheck = task.checkTime]
                 ELSE task.src
    IN IF newStatus # src.status
         THEN [task EXCEPT !.src = src, !.newStatus = newStatus, !.pc = "save",
                           !.change = [old |-> src.status, new |-> newStatus,
                                       ts |-> task.checkTime,
                                       dur |-> task.checkTime - src.lastChange]]
         ELSE [task EXCEPT !.src = src, !.newStatus = newStatus, !.pc = "touch",
                           !.change = NoChange]

\* CheckSource returns (a probe may take long; a passive check reads the clock)
TaskChecked(t) ==
    /\ t \in TaskIds
    /\ tasks[t].pc = "probing"
    /\ \E newStatus \in CheckSource(tasks[t].src, now) :
          tasks' = [tasks EXCEPT ![t] = Compare(tasks[t], newStatus)]
    /\ UNCHANGED <<now, db, events, notified, cache, activeMonitors,
                   bpGen, bpRunning, hasCallback, hb, storageUp, supVars, grace,
                   backoff, call, cmMu,
                   report, health, http, sourcesMu, saved>>

\* variant: performCheck returns when SaveStatusChange fails
TaskSaveOrReturn(t) ==
    /\ t \in TaskIds
    /\ tasks[t].pc = "save"
    /\ events' = IF storageUp
                   THEN SaveStatusChange(events, tasks[t].id, tasks[t].change)
                   ELSE events
    /\ tasks' = IF storageUp THEN [tasks EXCEPT ![t].pc = "update"]
                             ELSE [tasks EXCEPT ![t] = Returned(@)]
    /\ UNCHANGED <<now, db, notified, cache, activeMonitors,
                   bpGen, bpRunning, hasCallback, hb, storageUp, supVars, grace,
                   backoff, call, cmMu,
                   report, health, http, sourcesMu, saved>>

\* m.storage.SaveStatusChange(change); an error is only logged
TaskSave(t) ==
    /\ t \in TaskIds
    /\ tasks[t].pc = "save"
    /\ events' = IF storageUp
                   THEN SaveStatusChange(events, tasks[t].id, tasks[t].change)
                   ELSE events
    /\ tasks' = [tasks EXCEPT ![t].pc = "update"]
    /\ UNCHANGED <<now, db, notified, cache, activeMonitors,
                   bpGen, bpRunning, hasCallback, hb, storageUp, supVars, grace,
                   backoff, call, cmMu,
                   report, health, http, sourcesMu, saved>>

\* m.storage.UpdateSourceStatus(source.ID, newStatus, checkTime) of a transition
TaskUpdate(t) ==
    /\ t \in TaskIds
    /\ tasks[t].pc = "update"
    /\ LET id == tasks[t].id
       IN db' = IF storageUp /\ db[id] # NoRec
                  THEN [db EXCEPT ![id] = UpdateSourceStatus(@, tasks[t].newStatus,
                                                             tasks[t].checkTime)]
                  ELSE db
    /\ tasks' = [tasks EXCEPT ![t].pc = "mem"]
    /\ UNCHANGED <<now, events, notified, cache, activeMonitors,
                   bpGen, bpRunning, hasCallback, hb, storageUp, supVars, grace,
                   backoff, call, cmMu,
                   report, health, http, sourcesMu, saved>>

\* the in-memory source, the cache entry and go m.onStatusChange(source, change)
Notification(task) ==
    [id |-> task.id, old |-> task.change.old, new |-> task.change.new,
     ts |-> task.change.ts]

Dispatch(task, notes) ==
    IF task.cb
      THEN [notes EXCEPT ![Notification(task)] = @ + 1]
      ELSE notes

TaskCommit(t) ==
    /\ t \in TaskIds
    /\ tasks[t].pc = "mem"
    /\ tasks' = [tasks EXCEPT ![t] = Returned(
                     [@ EXCEPT !.src.status = tasks[t].newStatus,
                               !.src.lastChange = tasks[t].checkTime])]
    /\ cache' = IF tasks[t].mon = bpGen THEN [cache EXCEPT ![tasks[t].id] = t]
                                        ELSE cache
    /\ notified' = Dispatch(tasks[t], notified)
    /\ UNCHANGED <<now, db, events, activeMonitors, bpGen, bpRunning,
                   hasCallback, hb, storageUp, supVars, grace,
                   backoff, call, cmMu,
                   report, health, http, sourcesMu, saved>>

\* no transition: UpdateSourceStatus(source.ID, source.CurrentStatus, checkTime)
TaskTouch(t) ==
    /\ t \in TaskIds
    /\ tasks[t].pc = "touch"
    /\ LET id == tasks[t].id
       IN db' = IF storageUp /\ db[id] # NoRec
                  THEN [db EXCEPT ![id] = UpdateSourceStatus(@, tasks[t].src.status,
                                                             tasks[t].checkTime)]
                  ELSE db
    /\ tasks' = [tasks EXCEPT ![t] = Returned(@)]
    /\ UNCHANGED <<now, events, notified, cache, activeMonitors,
                   bpGen, bpRunning, hasCallback, hb, storageUp, supVars, grace,
                   backoff, call, cmMu,
                   report, health, http, sourcesMu, saved>>

\* the ctx.Done() case of the select
TaskExit(t) ==
    /\ t \in TaskIds
    /\ tasks[t].pc = "wait"
    /\ CtxDone(t)
    /\ tasks' = [tasks EXCEPT ![t] = Exited(@)]
    /\ UNCHANGED <<now, db, events, notified, cache, activeMonitors,
                   bpGen, bpRunning, hasCallback, hb, storageUp, supVars, grace,
                   backoff, call, cmMu,
                   report, health, http, sourcesMu, saved>>

\* ------------------------------------------- the supervisor's lifecycle
\* BotProcess.Stop as the monitor sees it: bp.cancel(), bp.monitor = nil
Stop ==
    /\ bpRunning
    /\ bpRunning' = FALSE
    /\ UNCHANGED <<now, db, events, notified, tasks, cache,
                   activeMonitors, bpGen, hasCallback, hb, storageUp, supVars, grace,
                   backoff, call, cmMu,
                   report, health, http, sourcesMu, saved>>

\* BotProcess.Start as the monitor sees it: a new bp.ctx, monitor.New (with
\* the bot's callback unless the token is empty) and Monitor.Start
Start(callback) ==
    /\ ~bpRunning
    /\ bpGen < MaxGen
    /\ storageUp
    /\ NTasks + Cardinality(GetEnabledSources) <= MaxTasks
    /\ bpGen' = bpGen + 1
    /\ bpRunning' = TRUE
    /\ hasCallback' = callback
    /\ SetMon(StartSources(New(bpGen + 1, callback), GetEnabledSources))
    /\ UNCHANGED <<now, db, events, notified, hb, storageUp, supVars, grace,
                   backoff, call, cmMu,
                   report, health, http, sourcesMu, saved>>

\* variant: Monitor.Start answers nil when the sources cannot be loaded
MonitorStartSilent(callback) ==
    /\ ~bpRunning
    /\ bpGen < MaxGen
    /\ NTasks + Cardinality(GetEnabledSources) <= MaxTasks
    /\ bpGen' = bpGen + 1
    /\ bpRunning' = TRUE
    /\ hasCallback' = callback
    /\ call' = [op |-> "Start", id |-> "", err |-> "nil"]
    /\ SetMon(IF storageUp
                THEN StartSources(New(bpGen + 1, callback), GetEnabledSources)
                ELSE New(bpGen + 1, callback))
    /\ UNCHANGED <<now, db, events, notified, hb, storageUp, supVars, grace,
                   backoff, cmMu,
                   report, health, http, sourcesMu, saved>>

\* BotProcess.Start as the monitor sees it, with the error of Monitor.Start:
\* GetEnabledSources fails and nothing is launched, or one AddSource per
\* source and nil
MonitorStart(callback) ==
    /\ ~bpRunning
    /\ bpGen < MaxGen
    /\ NTasks + Cardinality(GetEnabledSources) <= MaxTasks
    /\ bpGen' = bpGen + 1
    /\ bpRunning' = TRUE
    /\ hasCallback' = callback
    /\ call' = [op |-> "Start", id |-> "",
                err |-> IF storageUp THEN "nil" ELSE "LoadSources"]
    /\ SetMon(IF storageUp
                THEN StartSources(New(bpGen + 1, callback), GetEnabledSources)
                ELSE New(bpGen + 1, callback))
    /\ UNCHANGED <<now, db, events, notified, hb, storageUp, supVars, grace,
                   backoff, cmMu,
                   report, health, http, sourcesMu, saved>>

\* ------------------------------------------------------ the supervisor
\* goroutines that call into BotProcess: the process's main goroutine, the
\* goroutine of a configuration change or a forced reload, the restart
\* timer's callback, and runBotWithRecovery of each start
Host == <<"host", 0>>
Api == <<"api", 0>>
Timer == <<"timer", 0>>
Bot(g) == <<"bot", g>>
Bots == {Bot(g) : g \in 1..MaxGen}
Callers == {Host, Api, Timer}
\* the handlers of PUT /config/:key and GET /config/:key, and the goroutines
\* of "go cm.onChange()"
Writer == <<"set", 0>>
Reader == <<"get", 0>>
Changers == {<<"change", k>> : k \in 1..MaxChanges}
Threads == Callers \cup Bots \cup {Writer, Reader} \cup Changers
Free == <<"free", 0>>

\* config.Config, as far as the supervisor reads it
Cfg(token, enabled, maxAttempts) ==
    [token |-> token, AutoRestartEnabled |-> enabled,
     AutoRestartMaxAttempts |-> maxAttempts]

Configs == {Cfg("", FALSE, 0), Cfg("tok", TRUE, 0), Cfg("tok", TRUE, 1)}

NoCfg == [token |-> "nil", AutoRestartEnabled |-> FALSE,
          AutoRestartMaxAttempts |-> 0]

NoTimer == [set |-> FALSE, pending |-> FALSE, delay |-> 0]

\* a goroutine: where it is, the configuration it carries into Start, and the
\* error its last BotProcess call returned ("nil": none)
Idle == [pc |-> "idle", cfg |-> NoCfg, err |-> "nil"]
Gone == [pc |-> "gone", cfg |-> NoCfg, err |-> "nil"]
\* BotProcess.Start's error when bp.running is set
AlreadyRunning == [pc |-> "idle", cfg |-> NoCfg, err |-> "AlreadyRunning"]

RECURSIVE Pow(_, _)
Pow(b, n) == IF n = 0 THEN 1 ELSE b * Pow(b, n - 1)

\* BotProcess.calculateBackoffDelay for a configuration: the base delay at
\* attempts = 0, else baseDelay * multiplier^attempts (multiplier in tenths),
\* replaced by the maximum when larger; in whole seconds
backoffDelay(base, mult10, maxDelay, attempts) ==
    IF attempts = 0 THEN base
    ELSE LET delay == (base * Pow(mult10, attempts)) \div Pow(10, attempts)
         IN IF delay > maxDelay THEN maxDelay ELSE delay

\* BotProcess.calculateBackoffDelay under the default configuration
calculateBackoffDelay(attempts) ==
    backoffDelay(AutoRestartDelay, AutoRestartBackoffMultiplier10,
                 AutoRestartMaxDelay, attempts)

\* variant: a successful start keeps the counter
AttemptsAfterStartKept(failed, attempts) ==
    IF failed THEN attempts + 1 ELSE attempts

\* BotProcess.Start's writes to bp.restartAttempts: ++ on each failure path,
\* 0 on each success path
AttemptsAfterStart(failed, attempts) ==
    IF failed THEN attempts + 1 ELSE 0

\* variant: Start refuses only a healthy running process
StartRefusedWhenHealthy == bpRunning /\ healthy

\* BotProcess.Start's first test: bp.running
StartRefused == bpRunning

\* BotProcess.Start, from bp.mu.Lock() on. A start that fails calls
\* scheduleAutoRestart with bp.mu still held (the unlock is deferred).
BpStart(th) ==
    /\ thr[th].pc = "Start"
    /\ mu = Free
    /\ IF StartRefused
         THEN /\ thr' = [thr EXCEPT ![th] = AlreadyRunning]
              /\ UNCHANGED <<healthy, lastError, restartAttempts, config, mu,
                             bpGen, bpRunning, hasCallback, tasks, cache,
                             activeMonitors>>
         ELSE /\ bpGen < MaxGen
              /\ \E botOk \in BOOLEAN :
                   LET cfg == thr[th].cfg
                       gen == bpGen + 1
                       webOnly == cfg.token = ""
                       botFailed == ~webOnly /\ ~botOk
                       failed == botFailed \/ ~storageUp
                   IN /\ webOnly => botOk
                      /\ config' = cfg
                      /\ bpGen' = gen
                      /\ bpRunning' = TRUE
                      /\ healthy' = ~failed
                      /\ lastError' = IF botFailed THEN "init"
                                      ELSE IF failed THEN "monitor" ELSE "none"
                      /\ restartAttempts' =
                            AttemptsAfterStart(failed, restartAttempts)
                      /\ hasCallback' = IF botFailed THEN hasCallback
                                                     ELSE ~webOnly
                      /\ SetMon(IF botFailed THEN Mon
                                ELSE IF failed THEN New(gen, ~webOnly)
                                ELSE StartSources(New(gen, ~webOnly),
                                                  GetEnabledSources))
                      /\ mu' = IF failed THEN th ELSE Free
                      /\ thr' = IF failed
                                  THEN [thr EXCEPT ![th] = [pc |-> "schedule",
                                                            cfg |-> NoCfg,
                                                            err |-> "nil"]]
                                  ELSE [thr EXCEPT
                                          ![th] = Idle,
                                          ![Bot(gen)] =
                                             IF webOnly THEN @
                                             ELSE [pc |-> "polling",
                                                   cfg |-> NoCfg,
                                                   err |-> "nil"]]
    /\ UNCHANGED <<monData, storageUp, restartTimer, conf, grace,
                   backoff, call, cmMu,
                   report, health, http, sourcesMu, saved>>

\* BotProcess.scheduleAutoRestart, from bp.mu.Lock() on
scheduleAutoRestart(th) ==
    /\ thr[th].pc = "schedule"
    /\ mu = Free
    /\ restartTimer' =
          IF config = NoCfg \/ ~config.AutoRestartEnabled THEN restartTimer
          ELSE IF /\ config.AutoRestartMaxAttempts > 0
                  /\ restartAttempts >= config.AutoRestartMaxAttempts
                 THEN restartTimer
          ELSE [set |-> TRUE, pending |-> TRUE,
                delay |-> calculateBackoffDelay(restartAttempts)]
    /\ thr' = [thr EXCEPT ![th] = IF th \in Bots THEN Gone ELSE Idle]
    /\ UNCHANGED <<monData, tasks, cache, activeMonitors, bpGen, bpRunning,
                   hasCallback, storageUp, healthy, lastError, restartAttempts,
                   config, mu, conf, grace,
                   backoff, call, cmMu,
                   report, health, http, sourcesMu, saved>>

\* variant: Stop without the early return for a stopped process
BpStopAlways(th) ==
    /\ thr[th].pc \in {"Stop", "Shutdown"}
    /\ mu = Free
    /\ restartTimer' = NoTimer
    /\ bpRunning' = FALSE
    /\ thr' = [thr EXCEPT ![th] = IF @.pc = "Stop"
                                    THEN [@ EXCEPT !.pc = "Start"] ELSE Idle]
    /\ UNCHANGED <<monData, tasks, cache, activeMonitors, bpGen, hasCallback,
                   storageUp, healthy, lastError, restartAttempts, config, mu,
                   conf, grace,
                   backoff, call, cmMu,
                   report, health, http, sourcesMu, saved>>

\* BotProcess.Stop, from bp.mu.Lock() on; Restart goes on to Start
BpStop(th) ==
    /\ thr[th].pc \in {"Stop", "Shutdown"}
    /\ mu = Free
    /\ IF bpRunning
         THEN /\ restartTimer' = NoTimer
              /\ bpRunning' = FALSE
         ELSE UNCHANGED <<restartTimer, bpRunning>>
    /\ thr' = [thr EXCEPT ![th] = IF @.pc = "Stop"
                                    THEN [@ EXCEPT !.pc = "Start"] ELSE Idle]
    /\ UNCHANGED <<monData, tasks, cache, activeMonitors, bpGen, hasCallback,
                   storageUp, healthy, lastError, restartAttempts, config, mu,
                   conf, grace,
                   backoff, call, cmMu,
                   report, health, http, sourcesMu, saved>>

\* BotProcess.IsRunning, IsHealthy and GetStatus: what a caller that holds
\* bp.mu reads
IsRunning == bpRunning

IsHealthy == bpRunning /\ healthy

GetStatus ==
    [running |-> bpRunning, healthy |-> healthy,
     attempts |-> restartAttempts, timer_active |-> restartTimer.set,
     next_delay |-> calculateBackoffDelay(restartAttempts),
     last_error |-> lastError, started_at |-> IF bpRunning THEN bpGen ELSE 0]

\* before the first GET /status
NoReport ==
    [running |-> FALSE, healthy |-> FALSE, attempts |-> 0,
     timer_active |-> FALSE, next_delay |-> 0, last_error |-> "none",
     started_at |-> 0]

\* variant: GetStatus forgets a timer that has fired
GetStatusCallClearing ==
    /\ mu = Free
    /\ config # NoCfg
    /\ report' = GetStatus
    /\ restartTimer' = IF restartTimer.pending THEN restartTimer ELSE NoTimer
    /\ UNCHANGED <<monData, tasks, cache, activeMonitors, bpGen, bpRunning,
                   hasCallback, storageUp, healthy, lastError, restartAttempts,
                   config, mu, thr, conf, grace, backoff, call, cmMu, health, http, sourcesMu, saved>>

\* GET /status: BotProcess.GetStatus under bp.mu; the handler keeps the map
GetStatusCall ==
    /\ mu = Free
    /\ config # NoCfg
    /\ report' = GetStatus
    /\ UNCHANGED <<monData, tasks, cache, activeMonitors, bpGen, bpRunning,
                   hasCallback, storageUp, supVars, grace, backoff, call,
                   cmMu, health, http, sourcesMu, saved>>

\* before the first GET /health
NoHealth ==
    [pc |-> "idle", bot_running |-> FALSE, bot_healthy |-> FALSE,
     last_error |-> "none", httpStatus |-> 0]

\* handleHealth, first read: am.botProcess.IsRunning() under bp.mu
HealthIsRunning ==
    /\ health.pc \in {"idle", "done"}
    /\ mu = Free
    /\ health' = [NoHealth EXCEPT !.pc = "IsHealthy",
                                  !.bot_running = IsRunning]
    /\ UNCHANGED <<monData, tasks, cache, activeMonitors, bpGen, bpRunning,
                   hasCallback, storageUp, supVars, grace, backoff, call,
                   cmMu, report, http, sourcesMu, saved>>

\* handleHealth, second read: am.botProcess.IsHealthy() under bp.mu
HealthIsHealthy ==
    /\ health.pc = "IsHealthy"
    /\ mu = Free
    /\ health' = [health EXCEPT !.pc = "GetLastError",
                                !.bot_healthy = IsHealthy]
    /\ UNCHANGED <<monData, tasks, cache, activeMonitors, bpGen, bpRunning,
                   hasCallback, storageUp, supVars, grace, backoff, call,
                   cmMu, report, http, sourcesMu, saved>>

\* handleHealth, third read: am.botProcess.GetLastError() under bp.mu
HealthGetLastError ==
    /\ health.pc = "GetLastError"
    /\ mu = Free
    /\ health' = [health EXCEPT !.pc = "GetStatus",
                                !.last_error = lastError]
    /\ UNCHANGED <<monData, tasks, cache, activeMonitors, bpGen, bpRunning,
                   hasCallback, storageUp, supVars, grace, backoff, call,
                   cmMu, report, http, sourcesMu, saved>>

\* handleHealth from am.botProcess.GetStatus() under bp.mu to c.JSON: 503
\* when the process was read as not running or as not healthy, else 200
HealthRespond ==
    /\ health.pc = "GetStatus"
    /\ mu = Free
    /\ health' = [health EXCEPT
                    !.pc = "done",
                    !.httpStatus = IF ~health.bot_running THEN 503
                                   ELSE IF ~health.bot_healthy THEN 503
                                   ELSE 200]
    /\ UNCHANGED <<monData, tasks, cache, activeMonitors, bpGen, bpRunning,
                   hasCallback, storageUp, supVars, grace, backoff, call,
                   cmMu, report, http, sourcesMu, saved>>

\* AppManager.RestartBot: the fresh configuration, then BotProcess.Restart
RestartBot(th, cfg) ==
    [thr EXCEPT ![th] = [pc |-> "Stop", cfg |-> cfg, err |-> "nil"]]

\* the restart timer fires: its callback runs restartFunc in a new goroutine
TimerFire ==
    /\ restartTimer.pending
    /\ thr[Timer].pc = "idle"
    /\ restartTimer' = [restartTimer EXCEPT !.pending = FALSE]
    /\ thr' = RestartBot(Timer, conf)
    /\ UNCHANGED <<monData, tasks, cache, activeMonitors, bpGen, bpRunning,
                   hasCallback, storageUp, healthy, lastError, restartAttempts,
                   config, mu, conf, grace,
                   backoff, call, cmMu,
                   report, health, http, sourcesMu, saved>>

\* ConfigManager.Set that succeeds: the cache, SaveConfig, then
\* go cm.onChange(); one change at a time
SetConfig(cfg) ==
    /\ thr[Api].pc = "idle"
    /\ conf' = cfg
    /\ saved' = cfg
    /\ thr' = RestartBot(Api, cfg)
    /\ UNCHANGED <<monData, tasks, cache, activeMonitors, bpGen, bpRunning,
                   hasCallback, storageUp, healthy, lastError, restartAttempts,
                   restartTimer, config, mu, grace,
                   backoff, call, cmMu, report, health, http, sourcesMu>>

\* POST /config/reload: go am.RestartBot()
handleReloadConfig ==
    /\ thr[Api].pc = "idle"
    /\ thr' = RestartBot(Api, conf)
    /\ UNCHANGED <<monData, tasks, cache, activeMonitors, bpGen, bpRunning,
                   hasCallback, storageUp, healthy, lastError, restartAttempts,
                   restartTimer, config, mu, conf, grace,
                   backoff, call, cmMu,
                   report, health, http, sourcesMu, saved>>

\* ConfigManager.Set up to its return: cm.mu.Lock(), the cache, SaveConfig
ConfigSet(w, cfg) ==
    /\ thr[w].pc = "idle"
    /\ cmMu = Free
    /\ \E g \in Changers : thr[g].pc = "idle"
    /\ cmMu' = w
    /\ conf' = cfg
    /\ saved' = IF storageUp THEN cfg ELSE saved
    /\ thr' = [thr EXCEPT ![w] = [pc |-> "Set", cfg |-> cfg,
                                  err |-> IF storageUp THEN "nil"
                                                       ELSE "SaveConfig"]]
    /\ UNCHANGED <<monData, tasks, cache, activeMonitors, bpGen, bpRunning,
                   hasCallback, storageUp, healthy, lastError, restartAttempts,
                   restartTimer, config, mu, grace, backoff, call,
                   report, health, http, sourcesMu>>

\* variant: Set calls cm.onChange() itself, before its deferred unlock
ConfigSetReturnSync(w) ==
    /\ thr[w].pc = "Set"
    /\ thr' = [thr EXCEPT ![w] = [pc |-> "AsConfig", cfg |-> NoCfg,
                                  err |-> "nil"]]
    /\ UNCHANGED <<monData, tasks, cache, activeMonitors, bpGen, bpRunning,
                   hasCallback, storageUp, healthy, lastError, restartAttempts,
                   restartTimer, config, mu, conf, grace, backoff, call, cmMu,
                   report, health, http, sourcesMu, saved>>

\* ConfigManager.Set's return: the error of SaveConfig, or "go cm.onChange()"
\* and nil; the deferred cm.mu.Unlock()
ConfigSetReturn(w) ==
    /\ thr[w].pc = "Set"
    /\ cmMu' = Free
    /\ IF thr[w].err # "nil"
         THEN thr' = [thr EXCEPT ![w] = [pc |-> "idle", cfg |-> NoCfg,
                                        err |-> "SaveConfig"]]
         ELSE \E g \in Changers :
                /\ thr[g].pc = "idle"
                /\ thr' = [thr EXCEPT ![w] = Idle,
                                      ![g] = [pc |-> "AsConfig", cfg |-> NoCfg,
                                              err |-> "nil"]]
    /\ UNCHANGED <<monData, tasks, cache, activeMonitors, bpGen, bpRunning,
                   hasCallback, storageUp, healthy, lastError, restartAttempts,
                   restartTimer, config, mu, conf, grace, backoff, call,
                   report, health, http, sourcesMu, saved>>

\* AppManager.RestartBot's first call, ConfigManager.AsConfig: the cache is
\* copied under cm.mu.RLock(); BotProcess.Restart follows
AsConfig(g) ==
    /\ thr[g].pc = "AsConfig"
    /\ cmMu = Free
    /\ thr' = RestartBot(g, conf)
    /\ UNCHANGED <<monData, tasks, cache, activeMonitors, bpGen, bpRunning,
                   hasCallback, storageUp, healthy, lastError, restartAttempts,
                   restartTimer, config, mu, conf, grace, backoff, call, cmMu,
                   report, health, http, sourcesMu, saved>>

\* ConfigManager.GetAll for GET /config: the cache under cm.mu.RLock(); the
\* handler keeps what it read
ConfigGet(r) ==
    /\ cmMu = Free
    /\ thr[r].cfg # conf
    /\ thr' = [thr EXCEPT ![r] = [pc |-> "idle", cfg |-> conf, err |-> "nil"]]
    /\ UNCHANGED <<monData, tasks, cache, activeMonitors, bpGen, bpRunning,
                   hasCallback, storageUp, healthy, lastError, restartAttempts,
                   restartTimer, config, mu, conf, grace, backoff, call, cmMu,
                   report, health, http, sourcesMu, saved>>

\* AppManager.Shutdown calls BotProcess.Stop
Shutdown ==
    /\ thr[Host].pc = "idle"
    /\ thr' = [thr EXCEPT ![Host] = [pc |-> "Shutdown", cfg |-> NoCfg,
                                     err |-> "nil"]]
    /\ UNCHANGED <<monData, tasks, cache, activeMonitors, bpGen, bpRunning,
                   hasCallback, storageUp, healthy, lastError, restartAttempts,
                   restartTimer, config, mu, conf, grace,
                   backoff, call, cmMu,
                   report, health, http, sourcesMu, saved>>

\* runBotWithRecovery: telegramBot.Start(bp.ctx) returns, or panics
BotReturns(b) ==
    /\ thr[b].pc = "polling"
    /\ thr' = [thr EXCEPT ![b].pc = "returned"]
    /\ UNCHANGED <<monData, tasks, cache, activeMonitors, bpGen, bpRunning,
                   hasCallback, storageUp, healthy, lastError, restartAttempts,
                   restartTimer, config, mu, conf, grace,
                   backoff, call, cmMu,
                   report, health, http, sourcesMu, saved>>

BotPanics(b) ==
    /\ thr[b].pc = "polling"
    /\ thr' = [thr EXCEPT ![b].pc = "panicked"]
    /\ UNCHANGED <<monData, tasks, cache, activeMonitors, bpGen, bpRunning,
                   hasCallback, storageUp, healthy, lastError, restartAttempts,
                   restartTimer, config, mu, conf, grace,
                   backoff, call, cmMu,
                   report, health, http, sourcesMu, saved>>

\* runBotWithRecovery after the bot returned: under bp.mu, the exit is
\* unexpected when the current bp.ctx is not cancelled
BotMark(b) ==
    /\ thr[b].pc = "returned"
    /\ mu = Free
    /\ LET wasUnexpected == bpRunning
       IN IF wasUnexpected
            THEN /\ healthy' = FALSE
                 /\ lastError' = "exit"
                 /\ restartAttempts' = restartAttempts + 1
                 /\ thr' = [thr EXCEPT ![b].pc = "schedule"]
            ELSE /\ thr' = [thr EXCEPT ![b] = Gone]
                 /\ UNCHANGED <<healthy, lastError, restartAttempts>>
    /\ UNCHANGED <<monData, tasks, cache, activeMonitors, bpGen, bpRunning,
                   hasCallback, storageUp, restartTimer, config, mu, conf,
                   grace,
                   backoff, call, cmMu,
                   report, health, http, sourcesMu, saved>>

\* runBotWithRecovery's deferred recover, under bp.mu
BotRecover(b) ==
    /\ thr[b].pc = "panicked"
    /\ mu = Free
    /\ healthy' = FALSE
    /\ lastError' = "panic"
    /\ restartAttempts' = restartAttempts + 1
    /\ thr' = [thr EXCEPT ![b].pc = "schedule"]
    /\ UNCHANGED <<monData, tasks, cache, activeMonitors, bpGen, bpRunning,
                   hasCallback, storageUp, restartTimer, config, mu, conf,
                   grace,
                   backoff, call, cmMu,
                   report, health, http, sourcesMu, saved>>

\* the store starts and stops returning errors
StorageFault ==
    /\ storageUp' = ~storageUp
    /\ UNCHANGED <<monData, tasks, cache, activeMonitors, bpGen, bpRunning,
                   hasCallback, supVars, grace,
                   backoff, call, cmMu,
                   report, health, http, sourcesMu, saved>>

\* --------------------------------------------------------------- Spec
vars == <<now, db, events, notified, tasks, cache, activeMonitors,
          bpGen, bpRunning, hasCallback, hb, storageUp, supVars, grace,
          backoff, call, cmMu,
                   report, health, http, sourcesMu, saved>>

Init ==
    /\ now = 1
    /\ db = [i \in Ids |-> NoRec]
    /\ events = {}
    /\ notified = [c \in Notifications |-> 0]
    /\ tasks = <<>>
    /\ cache = NoSources
    /\ activeMonitors = NoSources
    /\ bpGen = 1
    /\ bpRunning = TRUE
    /\ hasCallback \in BOOLEAN
    /\ hb = NoHb
    /\ storageUp = TRUE
    /\ healthy = TRUE
    /\ lastError = "none"
    /\ restartAttempts = 0
    /\ restartTimer = NoTimer
    /\ config = NoCfg
    /\ mu = Free
    /\ thr = [th \in Threads |-> Idle]
    /\ conf = NoCfg
    /\ grace = NoGrace
    /\ backoff = NoBackoff
    /\ call = NoCall
    /\ cmMu = Free
    /\ report = NoReport
    /\ health = NoHealth
    /\ http = NoHttp
    /\ sourcesMu = NoLock
    /\ saved = conf

\* sources are created and checked, paused and resumed, heartbeats arrive;
\* nothing cancels a task
Next ==
    \/ Advance(MaxTime)
    \/ \E id \in OneSource, type \in SourceTypes : handleCreateSource(id, type)
    \/ \E id \in OneSource, st \in {StatusOffline, StatusOnline} :
          handleAddSource(id, "ping", st)
    \/ \E id \in OneSource : PauseSource(id)
    \/ \E id \in OneSource : ResumeSource(id)
    \/ \E id \in OneSource : IncomingWebhookPersist(id)
    \/ IncomingWebhookRecord
    \/ \E t \in TaskIds : TaskBegin(t)
    \/ \E t \in TaskIds : TaskChecked(t)
    \/ \E t \in TaskIds : TaskSave(t)
    \/ \E t \in TaskIds : TaskUpdate(t)
    \/ \E t \in TaskIds : TaskCommit(t)
    \/ \E t \in TaskIds : TaskTouch(t)

Spec == Init /\ [][Next]_vars

\* sources are created, updated (removed and added again) and paused while
\* checked
UpdateNext ==
    \/ Advance(ShortTime)
    \/ \E id \in OneSource, type \in SourceTypes : handleCreateSource(id, type)
    \/ \E id \in OneSource, en \in BOOLEAN : handleUpdateSource(id, db[id].type, en)
    \/ \E id \in OneSource : PauseSource(id)
    \/ \E t \in TaskIds : TaskBegin(t)
    \/ \E t \in TaskIds : TaskChecked(t)
    \/ \E t \in TaskIds : TaskSave(t)
    \/ \E t \in TaskIds : TaskUpdate(t)
    \/ \E t \in TaskIds : TaskCommit(t)
    \/ \E t \in TaskIds : TaskTouch(t)
    \/ \E t \in TaskIds : TaskExit(t)

UpdateSpec == Init /\ [][UpdateNext]_vars

\* heartbeats arrive for a source that is created, paused and resumed; the
\* store fails now and then
HeartbeatNext ==
    \/ Advance(MaxTime)
    \/ \E id \in OneSource : handleCreateSource(id, "webhook")
    \/ \E id \in OneSource : PauseSource(id)
    \/ \E id \in OneSource : ResumeSource(id)
    \/ \E id \in OneSource, valid \in BOOLEAN :
          handleIncomingWebhook(id, valid)
    \/ IncomingWebhookRecord
    \/ StorageFault

HeartbeatSpec == Init /\ [][HeartbeatNext]_vars

\* sources are created over HTTP and over the chat; the supervisor stops and
\* starts the process
LifeNext ==
    \/ Advance(ShortTime)
    \/ \E id \in OneSource, type \in SourceTypes : handleCreateSource(id, type)
    \/ \E id \in OneSource, st \in {StatusOffline, StatusOnline} :
          handleAddSource(id, "ping", st)
    \/ Stop
    \/ \E cb \in BOOLEAN : Start(cb)
    \/ \E t \in TaskIds : TaskBegin(t)
    \/ \E t \in TaskIds : TaskChecked(t)
    \/ \E t \in TaskIds : TaskSave(t)
    \/ \E t \in TaskIds : TaskUpdate(t)
    \/ \E t \in TaskIds : TaskCommit(t)
    \/ \E t \in TaskIds : TaskTouch(t)
    \/ \E t \in TaskIds : TaskExit(t)

LifeSpec == Init /\ [][LifeNext]_vars

\* sources are created, paused and resumed while the supervisor stops and
\* starts the process
ResumeNext ==
    \/ Advance(ShortTime)
    \/ \E id \in OneSource, type \in SourceTypes : handleCreateSource(id, type)
    \/ \E id \in OneSource : PauseSource(id)
    \/ \E id \in OneSource : ResumeSource(id)
    \/ Stop
    \/ \E cb \in BOOLEAN : Start(cb)
    \/ \E t \in TaskIds : TaskBegin(t)
    \/ \E t \in TaskIds : TaskChecked(t)
    \/ \E t \in TaskIds : TaskSave(t)
    \/ \E t \in TaskIds : TaskUpdate(t)
    \/ \E t \in TaskIds : TaskCommit(t)
    \/ \E t \in TaskIds : TaskTouch(t)
    \/ \E t \in TaskIds : TaskExit(t)

ResumeSpec == Init /\ [][ResumeNext]_vars

\* sources are created and paused, the process is stopped and started again
\* while the store fails now and then
StartNext ==
    \/ \E id \in Ids, type \in SourceTypes : handleCreateSource(id, type)
    \/ \E id \in Ids : PauseSource(id)
    \/ \E id \in Ids : ResumeSource(id)
    \/ Stop
    \/ \E cb \in BOOLEAN : MonitorStart(cb)
    \/ StorageFault

StartSpec == Init /\ [][StartNext]_vars

\* a source is checked while the store fails now and then
FaultNext ==
    \/ Advance(MaxTime)
    \/ \E id \in OneSource : handleCreateSource(id, "ping")
    \/ StorageFault
    \/ \E t \in TaskIds : TaskBegin(t)
    \/ \E t \in TaskIds : TaskChecked(t)
    \/ \E t \in TaskIds : TaskSave(t)
    \/ \E t \in TaskIds : TaskUpdate(t)
    \/ \E t \in TaskIds : TaskCommit(t)
    \/ \E t \in TaskIds : TaskTouch(t)

FaultSpec == Init /\ [][FaultNext]_vars

\* one source: checks, and pause and resume as two steps around
\* storage.UpdateSource; AddSource and the cache update of a check take
\* m.sourcesMu themselves
LockNext ==
    \/ Advance(ShortTime)
    \/ \E id \in OneSource : sourcesMu = NoLock /\ handleCreateSource(id, "ping")
    \/ \E id \in OneSource, enabled \in BOOLEAN : SetEnabledLocked(id, enabled)
    \/ SetEnabledUpdateSource
    \/ \E t \in TaskIds : TaskBegin(t)
    \/ \E t \in TaskIds : TaskChecked(t)
    \/ \E t \in TaskIds : TaskSave(t)
    \/ \E t \in TaskIds : TaskUpdate(t)
    \/ \E t \in TaskIds : sourcesMu = NoLock /\ TaskCommit(t)
    \/ \E t \in TaskIds : TaskTouch(t)

LockSpec == Init /\ [][LockNext]_vars

\* the process starts; the configuration changes, the bot fails, the restart
\* timer fires
SupInit ==
    /\ now = 1
    /\ db = [i \in Ids |-> NoRec]
    /\ events = {}
    /\ notified = [c \in Notifications |-> 0]
    /\ tasks = <<>>
    /\ cache = NoSources
    /\ activeMonitors = NoSources
    /\ bpGen = 0
    /\ bpRunning = FALSE
    /\ hasCallback = FALSE
    /\ hb = NoHb
    /\ storageUp \in BOOLEAN
    /\ healthy = FALSE
    /\ lastError = "none"
    /\ restartAttempts = 0
    /\ restartTimer = NoTimer
    /\ config = NoCfg
    /\ mu = Free
    /\ conf \in Configs
    /\ thr = [th \in Threads |->
                IF th = Host THEN [pc |-> "Start", cfg |-> conf, err |-> "nil"]
                ELSE Idle]
    /\ grace = NoGrace
    /\ backoff = NoBackoff
    /\ call = NoCall
    /\ cmMu = Free
    /\ report = NoReport
    /\ health = NoHealth
    /\ http = NoHttp
    /\ sourcesMu = NoLock
    /\ saved = conf

SupNext ==
    \/ \E th \in Callers : BpStart(th)
    \/ \E th \in Callers : BpStop(th)
    \/ \E th \in Threads : scheduleAutoRestart(th)
    \/ TimerFire
    \/ \E cfg \in Configs : SetConfig(cfg)
    \/ handleReloadConfig
    \/ Shutdown
    \/ \E b \in Bots : BotReturns(b)
    \/ \E b \in Bots : BotPanics(b)
    \/ \E b \in Bots : BotMark(b)
    \/ \E b \in Bots : BotRecover(b)
    \/ StorageFault

SupSpec == SupInit /\ [][SupNext]_vars

\* the process starts; configuration values are written and read while the
\* restarts of earlier writes run, or hang
ConfNext ==
    \/ \E th \in {Host} \cup Changers : BpStart(th)
    \/ \E th \in Changers : BpStop(th)
    \/ \E cfg \in Configs : ConfigSet(Writer, cfg)
    \/ ConfigSetReturn(Writer)
    \/ \E g \in Changers : AsConfig(g)
    \/ ConfigGet(Reader)

ConfSpec == SupInit /\ [][ConfNext]_vars

\* the process starts, the bot fails and is restarted by the timer or by a
\* reload; the status is read in between
StatusNext ==
    \/ \E th \in Callers : BpStart(th)
    \/ \E th \in Callers : BpStop(th)
    \/ \E b \in Bots : scheduleAutoRestart(b)
    \/ TimerFire
    \/ handleReloadConfig
    \/ \E b \in Bots : BotReturns(b)
    \/ \E b \in Bots : BotPanics(b)
    \/ \E b \in Bots : BotMark(b)
    \/ \E b \in Bots : BotRecover(b)
    \/ GetStatusCall

StatusSpec == SupInit /\ [][StatusNext]_vars

\* the supervisor and GET /health
HealthNext ==
    \/ \E th \in Callers : BpStart(th)
    \/ \E th \in Callers : BpStop(th)
    \/ \E b \in Bots : scheduleAutoRestart(b)
    \/ TimerFire
    \/ \E b \in Bots : BotReturns(b)
    \/ \E b \in Bots : BotPanics(b)
    \/ \E b \in Bots : BotMark(b)
    \/ \E b \in Bots : BotRecover(b)
    \/ HealthIsRunning
    \/ HealthIsHealthy
    \/ HealthGetLastError
    \/ HealthRespond

HealthSpec == SupInit /\ [][HealthNext]_vars

\* the supervisor when the bot never fails: telegramBot.Start(bp.ctx) returns
\* only once its context is cancelled
CancelNext ==
    \/ \E th \in Callers : BpStart(th)
    \/ \E th \in Callers : BpStop(th)
    \/ \E b \in Bots : scheduleAutoRestart(b)
    \/ TimerFire
    \/ handleReloadConfig
    \/ \E b \in Bots : BpCtxCancelled(b[2]) /\ BotReturns(b)
    \/ \E b \in Bots : BotMark(b)

CancelSpec == SupInit /\ [][CancelNext]_vars

\* the supervisor under a fixed configuration, with forced reloads
LiveNext ==
    \/ \E th \in Callers : BpStart(th)
    \/ \E th \in Callers : BpStop(th)
    \/ \E th \in Callers \cup Bots : scheduleAutoRestart(th)
    \/ TimerFire
    \/ handleReloadConfig
    \/ \E b \in Bots : BotReturns(b)
    \/ \E b \in Bots : BotPanics(b)
    \/ \E b \in Bots : BotMark(b)
    \/ \E b \in Bots : BotRecover(b)

\* every goroutine that can take its next step takes it, and an armed timer
\* fires; the bot's failures and the reloads are not owed
LiveFairness ==
    /\ \A th \in Callers : WF_vars(BpStart(th)) /\ WF_vars(BpStop(th))
    /\ \A th \in Callers \cup Bots : WF_vars(scheduleAutoRestart(th))
    /\ WF_vars(TimerFire)
    /\ \A b \in Bots : WF_vars(BotMark(b)) /\ WF_vars(BotRecover(b))

LiveSpec == SupInit /\ [][LiveNext]_vars /\ LiveFairness

\* ------------------------------------------------------------ the API key
\* c.Path() of a request: the registered route, as its segments
HealthPath == <<"health">>
IncomingPath == <<"webhooks", "incoming", ":token">>
StatusPath == <<"status">>
ReloadPath == <<"config", "reload">>
Paths == {HealthPath, IncomingPath, StatusPath, ReloadPath}

\* am.apiKey, and the X-API-Key headers a request may carry ("": none)
ApiKey == "test-api-key"
Keys == {"", "wrong-key", ApiKey}

\* strings.HasPrefix(c.Path(), "/webhooks/incoming/")
HasIncomingPrefix(path) ==
    /\ Len(path) >= 3
    /\ path[1] = "webhooks"
    /\ path[2] = "incoming"

\* variant: any X-API-Key header is accepted
apiKeyMiddlewareAnyKey(path, key) ==
    IF path = HealthPath THEN 0
    ELSE IF HasIncomingPrefix(path) THEN 0
    ELSE IF key = "" THEN 401
    ELSE 0

\* apiKeyMiddleware: 0 when it calls next(c), else the status it answers
apiKeyMiddleware(path, key) ==
    IF path = HealthPath THEN 0
    ELSE IF HasIncomingPrefix(path) THEN 0
    ELSE IF key = "" THEN 401
    ELSE IF key # ApiKey THEN 401
    ELSE 0

\* one request through the middleware and, when it calls next(c), the route's
\* handler: handleHealth's first read, handleIncomingWebhook for a token no
\* source has, handleStatus, handleReloadConfig
ServeHTTP(path, key) ==
    LET refused == apiKeyMiddleware(path, key)
        served(code) == http' = [seq |-> 1 - http.seq, path |-> path,
                                 key |-> key, status |-> code]
    IN IF refused # 0
         THEN /\ served(refused)
              /\ UNCHANGED <<monData, tasks, cache, activeMonitors, bpGen,
                             bpRunning, hasCallback, storageUp, supVars, grace,
                             backoff, call, cmMu, report, health, sourcesMu, saved>>
       ELSE IF path = HealthPath
         THEN /\ health.pc \in {"idle", "done"}
              /\ mu = Free
              /\ served(0)
              /\ health' = [NoHealth EXCEPT !.pc = "IsHealthy",
                                            !.bot_running = IsRunning]
              /\ UNCHANGED <<monData, tasks, cache, activeMonitors, bpGen,
                             bpRunning, hasCallback, storageUp, supVars, grace,
                             backoff, call, cmMu, report, sourcesMu, saved>>
       ELSE IF path = IncomingPath
         THEN /\ served(404)
              /\ call' = [op |-> "IncomingWebhook", id |-> "",
                          err |-> "NotFound"]
              /\ UNCHANGED <<monData, tasks, cache, activeMonitors, bpGen,
                             bpRunning, hasCallback, storageUp, supVars, grace,
                             backoff, cmMu, report, health, sourcesMu, saved>>
       ELSE IF path = StatusPath
         THEN /\ mu = Free
              /\ config # NoCfg
              /\ served(200)
              /\ report' = GetStatus
              /\ UNCHANGED <<monData, tasks, cache, activeMonitors, bpGen,
                             bpRunning, hasCallback, storageUp, supVars, grace,
                             backoff, call, cmMu, health, sourcesMu, saved>>
       ELSE /\ thr[Api].pc = "idle"
            /\ served(200)
            /\ thr' = RestartBot(Api, conf)
            /\ UNCHANGED <<monData, tasks, cache, activeMonitors, bpGen,
                           bpRunning, hasCallback, storageUp, healthy,
                           lastError, restartAttempts, restartTimer, config,
                           mu, conf, grace, backoff, call, cmMu, report,
                           health, sourcesMu, saved>>

\* the supervisor behind the HTTP API
AuthNext ==
    \/ \E th \in {Host, Api} : BpStart(th)
    \/ \E th \in {Api} : BpStop(th)
    \/ HealthIsHealthy
    \/ HealthGetLastError
    \/ HealthRespond
    \/ \E path \in Paths, key \in Keys : ServeHTTP(path, key)

AuthSpec == SupInit /\ [][AuthNext]_vars

\* the passive check, applied once to inputs drawn from small sets
GraceIntervals == {1, 2, 60}
GraceMultipliers == {0, 10, 15, 25}
GraceLastChecks == {0, 1, 100}
GraceNows == 1..8 \cup {249, 250, 251}

GraceInit ==
    /\ now = 1
    /\ db = [i \in Ids |-> NoRec]
    /\ events = {}
    /\ notified = [c \in Notifications |-> 0]
    /\ tasks = <<>>
    /\ cache = NoSources
    /\ activeMonitors = NoSources
    /\ bpGen = 1
    /\ bpRunning = TRUE
    /\ hasCallback = FALSE
    /\ hb = NoHb
    /\ storageUp = TRUE
    /\ healthy = TRUE
    /\ lastError = "none"
    /\ restartAttempts = 0
    /\ restartTimer = NoTimer
    /\ config = NoCfg
    /\ mu = Free
    /\ thr = [th \in Threads |-> Idle]
    /\ conf = NoCfg
    /\ grace \in [lastCheck : GraceLastChecks, interval : GraceIntervals,
                  mult10 : GraceMultipliers, tnow : GraceNows,
                  done : {FALSE}, status : {StatusUnknown}]
    /\ backoff = NoBackoff
    /\ call = NoCall
    /\ cmMu = Free
    /\ report = NoReport
    /\ health = NoHealth
    /\ http = NoHttp
    /\ sourcesMu = NoLock
    /\ saved = conf

\* Monitor.checkWebhookSource is called
GraceCheck ==
    /\ ~grace.done
    /\ grace' = [grace EXCEPT
                   !.done = TRUE,
                   !.status = checkWebhookSource(grace.lastCheck,
                                 grace.interval, grace.mult10, grace.tnow)]
    /\ UNCHANGED <<now, db, events, notified, tasks, cache, activeMonitors,
                   bpGen, bpRunning, hasCallback, hb, storageUp, supVars,
                   backoff, call, cmMu,
                   report, health, http, sourcesMu, saved>>

GraceNext == GraceCheck

GraceSpec == GraceInit /\ [][GraceNext]_vars

\* the backoff computation, applied once to a configuration and an attempt
\* count drawn from small sets; AUTO_RESTART_DELAY and AUTO_RESTART_MAX_DELAY
\* are read independently, so the base may exceed the maximum
BackoffBases == {5, 30}
BackoffMultipliers == {10, 15, 20}
BackoffMaxDelays == {20, 300}

BackoffInit ==
    /\ now = 1
    /\ db = [i \in Ids |-> NoRec]
    /\ events = {}
    /\ notified = [c \in Notifications |-> 0]
    /\ tasks = <<>>
    /\ cache = NoSources
    /\ activeMonitors = NoSources
    /\ bpGen = 1
    /\ bpRunning = TRUE
    /\ hasCallback = FALSE
    /\ hb = NoHb
    /\ storageUp = TRUE
    /\ healthy = TRUE
    /\ lastError = "none"
    /\ restartAttempts = 0
    /\ restartTimer = NoTimer
    /\ config = NoCfg
    /\ mu = Free
    /\ thr = [th \in Threads |-> Idle]
    /\ conf = NoCfg
    /\ grace = NoGrace
    /\ backoff \in [base : BackoffBases, mult10 : BackoffMultipliers,
                    max : BackoffMaxDelays, attempts : 0..MaxAttempts,
                    done : {FALSE}, delay : {0}]
    /\ call = NoCall
    /\ cmMu = Free
    /\ report = NoReport
    /\ health = NoHealth
    /\ http = NoHttp
    /\ sourcesMu = NoLock
    /\ saved = conf

\* BotProcess.calculateBackoffDelay is called
BackoffCalc ==
    /\ ~backoff.done
    /\ backoff' = [backoff EXCEPT
                     !.done = TRUE,
                     !.delay = backoffDelay(backoff.base, backoff.mult10,
                                            backoff.max, backoff.attempts)]
    /\ UNCHANGED <<now, db, events, notified, tasks, cache, activeMonitors,
                   bpGen, bpRunning, hasCallback, hb, storageUp, supVars,
                   grace, call, cmMu,
                   report, health, http, sourcesMu, saved>>

BackoffNext == BackoffCalc

BackoffSpec == BackoffInit /\ [][BackoffNext]_vars

\* two persisted sources, both started by Monitor.Start; handlers add and
\* remove them while their goroutines make the initial check and exit
RegSources ==
    [i \in Ids |-> IF i = "s1"
                     THEN Source("ping", StatusOnline, 1, 1, TRUE, 0, FALSE)
                     ELSE Source("webhook", StatusUnknown, 0, 1, TRUE,
                                 DefaultGraceMult10, TRUE)]

RegInit ==
    /\ now = 1
    /\ db = RegSources
    /\ events = {}
    /\ notified = [c \in Notifications |-> 0]
    /\ LET m == StartSources([gen |-> 1, cb |-> FALSE, tasks |-> <<>>,
                              cache |-> NoSources, active |-> NoSources], Ids)
       IN /\ tasks = m.tasks
          /\ cache = m.cache
          /\ activeMonitors = m.active
    /\ bpGen = 1
    /\ bpRunning = TRUE
    /\ hasCallback = FALSE
    /\ hb = NoHb
    /\ storageUp = TRUE
    /\ healthy = TRUE
    /\ lastError = "none"
    /\ restartAttempts = 0
    /\ restartTimer = NoTimer
    /\ config = NoCfg
    /\ mu = Free
    /\ thr = [th \in Threads |-> Idle]
    /\ conf = NoCfg
    /\ grace = NoGrace
    /\ backoff = NoBackoff
    /\ call = NoCall
    /\ cmMu = Free
    /\ report = NoReport
    /\ health = NoHealth
    /\ http = NoHttp
    /\ sourcesMu = NoLock
    /\ saved = conf

RegNext ==
    \/ \E id \in Ids : MonitorAddSource(id)
    \/ \E id \in Ids : MonitorRemoveSource(id)
    \/ \E t \in TaskIds : TaskBegin(t)
    \/ \E t \in TaskIds : TaskChecked(t)
    \/ \E t \in TaskIds : TaskSave(t)
    \/ \E t \in TaskIds : TaskUpdate(t)
    \/ \E t \in TaskIds : TaskCommit(t)
    \/ \E t \in TaskIds : TaskTouch(t)
    \/ \E t \in TaskIds : TaskExit(t)

RegSpec == RegInit /\ [][RegNext]_vars

\* ===================================================== properties, Monitor
\* a step of task t inside performCheck
CheckStep(t) == InCheck(t) /\ tasks'[t].pc # tasks[t].pc

\* a transition between two known statuses, as held by a task's change record
KnownTransition(c) ==
    /\ c.old \in {StatusOffline, StatusOnline}
    /\ c.new \in {StatusOffline, StatusOnline}

\* C3: in every step of a check, the in-memory and the persisted copy of the
\* source change current_status and last_change_time only in a tick that found
\* the computed status different from the known one, and then both become the
\* computed status and the check time; in every other tick both fields of both
\* copies stay as they are.
C3_StatusAndChangeTimeTogether ==
    [][\A t \in TaskIds : CheckStep(t) =>
          LET id == tasks[t].id
              pc == tasks[t].pc
          IN /\ pc = "mem" =>
                   /\ tasks'[t].src.status = tasks[t].newStatus
                   /\ tasks'[t].src.lastChange = tasks[t].checkTime
             /\ pc # "mem" =>
                   /\ tasks'[t].src.status = tasks[t].src.status
                   /\ tasks'[t].src.lastChange = tasks[t].src.lastChange
             /\ pc = "update" =>
                   /\ db'[id].status = tasks[t].newStatus
                   /\ db'[id].lastChange = tasks[t].checkTime
             /\ pc # "update" =>
                   /\ db'[id].status = db[id].status
                   /\ db'[id].lastChange = db[id].lastChange]_vars

\* C4: after an update (RemoveSource, then AddSource of the same id) there are
\* never two check tasks of one source that are both inside a check.
C4_NoOverlappingChecks ==
    \A t1, t2 \in TaskIds :
        (t1 # t2 /\ tasks[t1].id = tasks[t2].id) => ~(InCheck(t1) /\ InCheck(t2))

\* C5: a tick that finds a source known as online offline (or the reverse)
\* leaves exactly one StatusChange for its check time, with the old and the new
\* status and as duration the check time minus the source's previous
\* last_change_time (the persisted one and the cached one); it sets the source
\* record and the in-memory source to the new status, and it starts the
\* notification sink exactly once for that change.
C5_TransitionRecordedOnce ==
    [][\A t \in TaskIds :
          (CheckStep(t) /\ KnownTransition(tasks[t].change)) =>
             LET id == tasks[t].id
                 c == tasks[t].change
                 n == Notification(tasks[t])
             IN /\ tasks[t].pc = "save" =>
                      \E e \in events' :
                          /\ e.id = id /\ e.ts = tasks[t].checkTime
                          /\ e.dur = tasks[t].checkTime - db[id].lastChange
                /\ tasks[t].pc = "update" => db'[id].status = c.new
                /\ tasks[t].pc = "mem" =>
                      /\ {e \in events : e.id = id /\ e.ts = tasks[t].checkTime}
                           = {[id |-> id, old |-> c.old, new |-> c.new,
                               ts |-> tasks[t].checkTime,
                               dur |-> tasks[t].checkTime
                                         - tasks[t].src.lastChange]}
                      /\ tasks'[t].src.status = c.new
                      /\ tasks[t].cb =>
                            /\ notified[n] = 0
                            /\ notified'[n] = 1
                      /\ \A m \in Notifications \ {n} :
                            notified'[m] = notified[m]
                /\ tasks[t].pc # "mem" => notified' = notified]_vars

\* C6: when a notification is dispatched, the StatusChange of that transition
\* is persisted and the dispatching task is past its source-record write; the
\* dispatch returns the task to its loop, which waits for no sink.
C6_PersistBeforeNotify ==
    [][\A n \in Notifications : notified'[n] > notified[n] =>
          /\ \E e \in events :
                e.id = n.id /\ e.ts = n.ts /\ e.old = n.old /\ e.new = n.new
          /\ \E t \in TaskIds :
                /\ tasks[t].pc = "mem"
                /\ Notification(tasks[t]) = n
                /\ tasks'[t].pc = "wait"]_vars

\* a task is inside a later check while a sink it started has not returned
\* (no sink ever returns)
C6_Witness ==
    \E t \in TaskIds, n \in Notifications :
        /\ n.id = tasks[t].id
        /\ notified[n] > 0
        /\ tasks[t].pc = "probing"
        /\ tasks[t].checkTime > n.ts

C8_PassiveTickKeepsLastCheck ==
    [][\A t \in TaskIds :
          (CheckStep(t) /\ tasks[t].src.type = "webhook") =>
             /\ tasks'[t].src.lastCheck = tasks[t].src.lastCheck
             /\ db'[tasks[t].id].lastCheck = db[tasks[t].id].lastCheck]_vars

\* C10: once Stop has cancelled the lifecycle signal, every check task that
\* has not returned has its cancellation signalled (a task leaves its loop
\* only through ctx.Done()), however it was added.
C10_StopCancelsEveryTask ==
    ~bpRunning => \A t \in TaskIds : Alive(t) => CtxDone(t)

\* ================================================== properties, Supervisor
\* C1: a Start that recorded an initialization failure is not left waiting,
\* inside scheduleAutoRestart, for the lock it holds itself: it returns, and
\* IsRunning, IsHealthy, GetLastError and GetStatus, which take the same lock,
\* can return after it.
C1_FailedStartReturns ==
    \A th \in Callers : thr[th].pc = "schedule" => mu # th

\* the delay the restart schedule names for the k-th consecutive failure
BackoffAfter(k) ==
    LET delay == (AutoRestartDelay * Pow(AutoRestartBackoffMultiplier10, k - 1))
                    \div Pow(10, k - 1)
    IN IF delay > AutoRestartMaxDelay THEN AutoRestartMaxDelay ELSE delay

\* C2: whenever the restart timer is armed, after the k-th consecutive
\* failure, its delay is min(base * multiplier^(k-1), max): 30 s after the
\* first failure, then 60 s, then 120 s.
C2_BackoffOfKthFailure ==
    [][(restartTimer' # restartTimer /\ restartTimer'.pending) =>
          restartTimer'.delay = BackoffAfter(restartAttempts')]_vars

\* ======================================================= properties, grace
\* the multiplier a passive check works with: 2.5 when none is stored
GraceMultiplier10(mult10) == IF mult10 <= 0 THEN DefaultGraceMult10 ELSE mult10

\* C9: the passive check answers online exactly when last_check_time is set
\* and now <= last_check_time + interval * multiplier (compared in tenths, so
\* the product is exact), and offline otherwise; with interval 60 s,
\* multiplier 2.5 and a heartbeat at 100 it is online at 249 and offline at 251.
C9_OnlineWithinGrace ==
    grace.done =>
        /\ grace.status \in {StatusOffline, StatusOnline}
        /\ grace.status = StatusOnline <=>
              /\ grace.lastCheck # 0
              /\ 10 * grace.tnow <= 10 * grace.lastCheck
                     + grace.interval * GraceMultiplier10(grace.mult10)
        /\ (grace.interval = 60 /\ grace.mult10 = 25 /\ grace.lastCheck = 100) =>
              /\ grace.tnow = 249 => grace.status = StatusOnline
              /\ grace.tnow = 251 => grace.status = StatusOffline

\* the check of the example answered offline one second after the grace period
C9_Witness ==
    /\ grace.done
    /\ grace.interval = 60 /\ grace.mult10 = 25
    /\ grace.lastCheck = 100 /\ grace.tnow = 251
    /\ grace.status = StatusOffline

\* C11: whenever the supervisor's lock is free, the stored health state and
\* the snapshots of IsHealthy and GetStatus have healthy only with running,
\* also after Stop.
C11_HealthyOnlyWhenRunning ==
    mu = Free =>
        /\ healthy => bpRunning
        /\ IsHealthy => IsRunning
        /\ GetStatus.healthy => GetStatus.running

\* C12: a Start that finds the process stopped and ends healthy leaves the
\* restart-attempt counter at 0 whatever it was before; a Start that ends
\* unhealthy does not reset it (it counts one more attempt).
C12_SuccessfulStartResetsAttempts ==
    [][\A th \in Callers :
          (thr[th].pc = "Start" /\ thr'[th].pc # "Start" /\ ~bpRunning) =>
              /\ bpRunning'
              /\ healthy' => restartAttempts' = 0
              /\ ~healthy' => restartAttempts' = restartAttempts + 1]_vars

\* a start succeeded after a bot goroutine had counted a failure and before
\* that goroutine got to schedule the restart
C12_Witness ==
    /\ \E b \in Bots : thr[b].pc = "schedule"
    /\ bpRunning
    /\ healthy
    /\ restartAttempts = 0

\* C13: for every configuration with multiplier >= 1 and every attempt count
\* n, the computed delay is at most the maximum delay and the delay of n + 1
\* is at least the delay of n.
C13_BackoffMonotoneAndCapped ==
    (backoff.done /\ backoff.mult10 >= 10) =>
        /\ backoff.delay <= backoff.max
        /\ backoffDelay(backoff.base, backoff.mult10, backoff.max,
                        backoff.attempts + 1) >= backoff.delay

\* C14: whenever the supervisor is stopped (running is false) no restart
\* timer is armed, whatever the interleaving of Stop with a failing bot.
C14_StoppedHasNoTimer == ~bpRunning => ~restartTimer.pending

\* C15: Stop on a stopped supervisor returns no error and leaves the health
\* state, the counter, the timer, the configuration and the monitor as they
\* were, so a second Stop changes nothing.
C15_StopIsIdempotent ==
    [][\A th \in Callers :
          (/\ thr[th].pc \in {"Stop", "Shutdown"}
           /\ thr'[th] # thr[th]
           /\ ~bpRunning) =>
              /\ thr'[th].err = "nil"
              /\ UNCHANGED <<bpRunning, healthy, lastError, restartAttempts,
                             restartTimer, config, bpGen, hasCallback, tasks,
                             cache, activeMonitors>>]_vars

\* two restarts have both passed their Stop since the only start: the later
\* Stop found the supervisor stopped
C15_Witness ==
    /\ thr[Api].pc = "Start"
    /\ thr[Timer].pc = "Start"
    /\ bpGen = 1
    /\ ~bpRunning

\* C16: scheduleAutoRestart leaves the timer and the health state alone when
\* auto-restart is disabled or M > 0 automatic restarts have been made since
\* the last successful start; otherwise it arms the timer. It runs after a
\* failure was counted, so restartAttempts - 1 restarts have been made.
C16_ScheduleArmsUnlessExhausted ==
    [][\A th \in Threads :
          (thr[th].pc = "schedule" /\ thr'[th].pc # "schedule") =>
              LET M == config.AutoRestartMaxAttempts
                  made == restartAttempts - 1
              IN IF ~config.AutoRestartEnabled \/ (M > 0 /\ made >= M)
                   THEN UNCHANGED <<restartTimer, healthy, lastError,
                                    restartAttempts, bpRunning, config>>
                   ELSE /\ restartTimer'.set
                        /\ restartTimer'.pending]_vars

\* C17: Start on a supervisor that is running, healthy or not, returns the
\* already-running error and leaves the configuration, the health state, the
\* counter, the timer, the monitor and the bot goroutines as they were.
C17_StartWhileRunningRefused ==
    [][\A th \in Callers :
          (thr[th].pc = "Start" /\ thr'[th] # thr[th] /\ bpRunning) =>
              /\ thr'[th] = AlreadyRunning
              /\ \A b \in Bots : thr'[b] = thr[b]
              /\ UNCHANGED <<bpRunning, healthy, lastError, restartAttempts,
                             restartTimer, config, bpGen, hasCallback, tasks,
                             cache, activeMonitors>>]_vars

\* a Start has returned the error and the process it found is unhealthy
C17_Witness ==
    /\ \E th \in Callers : thr[th].err = "AlreadyRunning"
    /\ bpRunning
    /\ ~healthy

\* C18: AddSource on a registered id returns the already-monitored error and
\* leaves the registry, the cache and the goroutines as they were; on an
\* unregistered id it returns no error, spawns exactly one goroutine and
\* registers it, and only it, in the registry and in the cache.
C18_AddSourceOnceOrRefused ==
    [][((call' # call \/ Len(tasks') # Len(tasks)) /\ call'.op = "AddSource") =>
          LET id == call'.id
              k == Len(tasks) + 1
          IN IF activeMonitors[id] # 0
               THEN /\ call'.err = "AlreadyMonitored"
                    /\ UNCHANGED <<tasks, cache, activeMonitors>>
               ELSE /\ call'.err = "nil"
                    /\ Len(tasks') = k
                    /\ SubSeq(tasks', 1, Len(tasks)) = tasks
                    /\ tasks'[k].id = id
                    /\ tasks'[k].pc = "init" /\ ~tasks'[k].cancelled
                    /\ activeMonitors' = [activeMonitors EXCEPT ![id] = k]
                    /\ cache' = [cache EXCEPT ![id] = k]]_vars

\* an AddSource was refused for a registered source
C18_Witness ==
    /\ call.op = "AddSource"
    /\ call.err = "AlreadyMonitored"
    /\ activeMonitors[call.id] # 0

\* C19: RemoveSource on an unregistered id returns the not-monitored error
\* and leaves the registry, the cache and the goroutines as they were; on a
\* registered id it cancels that id's goroutine only and deletes that id, and
\* only it, from the registry and from the cache.
C19_RemoveSourceOnlyThatOne ==
    [][(call' # call /\ call'.op = "RemoveSource") =>
          LET id == call'.id
              k == activeMonitors[id]
          IN IF k = 0
               THEN /\ call'.err = "NotMonitored"
                    /\ UNCHANGED <<tasks, cache, activeMonitors>>
               ELSE /\ call'.err = "nil"
                    /\ tasks' = [tasks EXCEPT ![k].cancelled = TRUE]
                    /\ activeMonitors' = [activeMonitors EXCEPT ![id] = 0]
                    /\ cache' = [cache EXCEPT ![id] = 0]]_vars

\* one source was removed while the other is still registered, cached and
\* not cancelled
C19_Witness ==
    /\ call.op = "RemoveSource"
    /\ call.err = "nil"
    /\ activeMonitors[call.id] = 0
    /\ \E j \in Ids \ {call.id} :
          /\ activeMonitors[j] # 0
          /\ cache[j] = activeMonitors[j]
          /\ ~tasks[activeMonitors[j]].cancelled

\* task t takes a tick of its ticker and calls performCheck
TickStep(t) ==
    /\ tasks[t].pc = "wait"
    /\ tasks'[t].pc \in {"wait", "probing"}
    /\ tasks[t].tick /\ ~tasks'[t].tick

\* the source is paused: its persisted record has enabled = false
Disabled(id) == db[id] # NoRec /\ ~db[id].enabled

\* C20: a tick on a paused source is skipped: the task goes back to waiting
\* without checking, and the persisted record, the events, the notifications
\* and the task's copy of the source stay as they were.
C20_PausedTickIsSkipped ==
    [][\A t \in TaskIds :
          (TickStep(t) /\ Disabled(tasks[t].id)) =>
              /\ tasks'[t].pc = "wait"
              /\ tasks'[t].src = tasks[t].src
              /\ UNCHANGED <<db, events, notified>>]_vars

\* a step of PauseSource or ResumeSource on id that changes something: no
\* goroutine moves, no tick is delivered or taken, no heartbeat is under way
EnabledStep(id) ==
    /\ db[id] # NoRec
    /\ UNCHANGED <<now, hb, cache, activeMonitors, events, notified>>
    /\ Len(tasks') = Len(tasks)
    /\ \A t \in TaskIds : /\ tasks'[t].pc = tasks[t].pc
                          /\ tasks'[t].tick = tasks[t].tick
    /\ db' # db \/ tasks' # tasks

\* C21: PauseSource on a paused source and ResumeSource on an enabled one
\* (the enabled flag is the same before and after), called while no check
\* and no heartbeat is under way, leave the persisted record and the
\* in-memory copy, timestamps included, as they were.
C21_RepeatedPauseChangesNothing ==
    [][\A id \in Ids :
          (/\ EnabledStep(id)
           /\ db'[id].enabled = db[id].enabled
           /\ hb = NoHb
           /\ \A t \in TaskIds : ~InCheck(t)) =>
              /\ db'[id] = db[id]
              /\ tasks' = tasks]_vars

\* C22: the goroutine of a configuration change leaves BotProcess.Start having
\* started the process (one more start) with the configuration that holds the
\* written value.
C22_ConfigChangeStartsWithNewValue ==
    [][(thr[Api].pc = "Start" /\ thr'[Api].pc # "Start") =>
          /\ bpGen' = bpGen + 1
          /\ config' = thr[Api].cfg]_vars

\* C23: ConfigManager.mu is only ever held by a Set that can return at once;
\* no goroutine holds it while it reads the configuration for a restart or is
\* inside BotProcess.Restart, so a restart that hangs keeps no writer or
\* reader of the configuration waiting.
C23_SetReturnsWithoutRestart ==
    /\ cmMu # Free => /\ thr[cmMu].pc = "Set"
                      /\ ENABLED ConfigSetReturn(cmMu)
    /\ \A g \in Threads :
          thr[g].pc \in {"AsConfig", "Stop", "Start", "schedule"} => cmMu # g

\* a value is being written while the restart of an earlier write hangs in
\* Start, bp.mu held
C23_Witness ==
    /\ cmMu = Writer
    /\ \E g \in Changers : thr[g].pc = "schedule" /\ mu = g

\* runBotWithRecovery of b records the fault and goes on to
\* scheduleAutoRestart
FaultStep(b) ==
    /\ thr[b].pc \in {"returned", "panicked"}
    /\ thr'[b].pc = "schedule"

\* C24: when the bot's goroutine returns while the context is not cancelled,
\* or panics, the supervisor is left running and unhealthy with lastError set
\* and one more restart attempt; its scheduleAutoRestart then arms the timer
\* if auto-restart is enabled and the attempts are below the maximum.
C24_FaultIsRecordedAndRestartArmed ==
    [][\A b \in Bots :
          /\ FaultStep(b) =>
                /\ bpRunning' /\ ~healthy' /\ lastError' # "none"
                /\ restartAttempts' = restartAttempts + 1
          /\ (thr[b].pc = "schedule" /\ thr'[b].pc # "schedule") =>
                /\ bpRunning' /\ ~healthy' /\ lastError' # "none"
                /\ (/\ config.AutoRestartEnabled
                    /\ \/ config.AutoRestartMaxAttempts = 0
                       \/ restartAttempts < config.AutoRestartMaxAttempts) =>
                      restartTimer'.pending]_vars

\* C25: the Stop of a forced reload (or of a configuration change's restart)
\* that finds the restart timer pending cancels it, so that the timer cannot
\* fire after the reload's restart.
C25_ReloadCancelsPendingTimer ==
    [][(/\ thr[Api].pc = "Stop" /\ thr'[Api].pc = "Start"
        /\ restartTimer.pending) => ~restartTimer'.pending]_vars

\* C26: GetStatus changes neither running, healthy, lastError, the start, the
\* attempts nor the timer; what it reports is what a second call made right
\* after it reports.
C26_GetStatusIsPureRead ==
    [][report' # report =>
          /\ UNCHANGED <<bpRunning, healthy, lastError, bpGen, restartAttempts,
                         restartTimer, config>>
          /\ report' = GetStatus']_vars

\* the status was read while the process was running unhealthy with the
\* restart timer armed
C26_Witness ==
    /\ report.running /\ ~report.healthy /\ report.timer_active
    /\ report.attempts = 1
    /\ report = GetStatus

\* a request to /webhooks/incoming/:token of source id is answered
HeartbeatStep(id) ==
    /\ call' # call
    /\ call'.op = "IncomingWebhook" /\ call'.id = id

\* C27: a heartbeat that is refused (token unknown, source paused, headers or
\* content not as expected, store failing) changes neither the persisted
\* sources nor the cached ones; an accepted one is for an enabled source,
\* persists online with last_check_time now, and the cache is then given the
\* same time.
C27_HeartbeatChangesOnlyOnSuccess ==
    [][/\ \A id \in Ids :
            HeartbeatStep(id) =>
               IF call'.err = "nil"
                 THEN /\ db[id] # NoRec /\ db[id].token /\ db[id].enabled
                      /\ db' = [db EXCEPT ![id].status = StatusOnline,
                                          ![id].lastCheck = now,
                                          ![id].lastChange =
                                             IF db[id].status = StatusOnline
                                               THEN @ ELSE now]
                      /\ hb' = [id |-> id, ts |-> now]
                      /\ tasks' = tasks
                 ELSE UNCHANGED <<db, tasks, hb>>
       /\ (hb # NoHb /\ hb' = NoHb /\ cache[hb.id] # 0) =>
             /\ tasks'[cache[hb.id]].src.lastCheck = hb.ts
             /\ tasks'[cache[hb.id]].src.status = StatusOnline
             /\ db' = db]_vars

\* a heartbeat was accepted after the clock moved, and both the persisted
\* and the cached source carry its time
C27_Witness ==
    \E id \in Ids :
       /\ call = [op |-> "IncomingWebhook", id |-> id, err |-> "nil"]
       /\ hb = NoHb /\ now > 1 /\ cache[id] # 0
       /\ db[id].status = StatusOnline /\ db[id].lastCheck = now
       /\ tasks[cache[id]].src.lastCheck = now

\* the monitorSource goroutines of id that run under a context that is not
\* cancelled
RunningTasks(id) ==
    {t \in TaskIds : tasks[t].id = id /\ Alive(t) /\ ~CtxDone(t)}

\* nothing is under way: no check, no heartbeat, no cancelled goroutine that
\* has yet to return
Quiet ==
    /\ hb = NoHb
    /\ \A t \in TaskIds : ~InCheck(t) /\ (CtxDone(t) => ~Alive(t))

\* C28: while the process runs healthy and nothing is under way, every
\* persisted enabled source has exactly one running check goroutine.
C28_OneTaskPerEnabledSource ==
    (bpRunning /\ healthy /\ Quiet) =>
        \A id \in Ids :
           (db[id] # NoRec /\ db[id].enabled) =>
               Cardinality(RunningTasks(id)) = 1

\* C29: a transition whose SaveStatusChange or UpdateSourceStatus fails goes
\* on all the same: the goroutine sets the in-memory status and
\* last_change_time to what it found and is back at its ticker.
C29_FailedPersistStillCommits ==
    [][\A t \in TaskIds :
          /\ (~storageUp /\ tasks[t].pc = "save" /\ tasks'[t].pc # "save") =>
                tasks'[t].pc = "update"
          /\ (~storageUp /\ tasks[t].pc = "update"
                         /\ tasks'[t].pc # "update") =>
                /\ tasks'[t].pc = "mem"
                /\ db' = db
          /\ (tasks[t].pc = "mem" /\ tasks'[t].pc # "mem") =>
                /\ tasks'[t].pc = "wait"
                /\ tasks'[t].src.status = tasks[t].newStatus
                /\ tasks'[t].src.lastChange = tasks[t].checkTime]_vars

\* a transition was found while the store was failing: nothing of it is
\* persisted, the goroutine has it in memory and has begun a later check
C29_Witness ==
    \E t \in TaskIds :
       /\ Alive(t) /\ tasks[t].pc = "probing"
       /\ tasks[t].src.status # StatusUnknown
       /\ tasks[t].src.status # db[tasks[t].id].status
       /\ tasks[t].checkTime > tasks[t].src.lastChange
       /\ events = {}

\* the goroutines that the step launches for id
Launched(id) ==
    {t \in (Len(tasks) + 1)..Len(tasks') :
        tasks'[t].id = id /\ tasks'[t].ctx = bpGen' /\ tasks'[t].pc = "init"}

C31_UnhealthyAnswerHasLastError ==
    health.pc = "done" =>
        /\ (health.bot_running /\ ~health.bot_healthy
              => health.last_error # "none")
        /\ health.httpStatus =
              (IF health.bot_running /\ health.bot_healthy THEN 200 ELSE 503)

\* C32: a request on a route other than /health and the inbound heartbeat
\* whose X-API-Key header is missing or differs from the configured key is
\* answered 401 and changes nothing else; such a route is served only with
\* the configured key
C32_OnlyTheConfiguredKeyIsServed ==
    [][http' # http =>
         LET r == http'
             open == r.path = HealthPath \/ r.path = IncomingPath
         IN ~open =>
              /\ r.key # ApiKey =>
                   /\ r.status = 401
                   /\ UNCHANGED <<monData, tasks, cache, activeMonitors,
                                  bpGen, bpRunning, hasCallback, storageUp,
                                  supVars, grace, backoff, call, cmMu, report,
                                  health, sourcesMu, saved>>
              /\ r.status # 401 => r.key = ApiKey]_vars

\* a request with a wrong key was refused
C32_Witness ==
    /\ http.path = StatusPath
    /\ http.key = "wrong-key"
    /\ http.status = 401

\* C33: no lock of the monitor is held while a persistence write is in
\* progress: m.sourcesMu is never held by a call that is inside
\* storage.UpdateSource
C33_NoLockAcrossPersistence == sourcesMu.pc # "UpdateSource"

\* C34: a bot task that ended because the supervisor cancelled its context
\* is not treated as a failure, whenever it gets to look at the supervisor:
\* it leaves healthy, lastError and the attempt counter alone and goes away
\* without scheduling a restart
C34_CancelledExitIsNoFailure ==
    [][\A b \in Bots :
         thr[b].pc = "returned" /\ thr'[b].pc # "returned" =>
            /\ UNCHANGED <<healthy, lastError, restartAttempts>>
            /\ thr'[b] = Gone]_vars

\* C35: once Stop has returned, a check task started under the stopped
\* process's lifecycle context begins no further check, persists nothing and
\* notifies nobody
C35_StoppedTaskIsSilent ==
    [][\A t \in TaskIds :
         BpCtxCancelled(tasks[t].ctx) /\ tasks'[t] # tasks[t] =>
            /\ UNCHANGED <<db, events, notified>>
            /\ tasks'[t].pc # "probing"]_vars

\* C36: once RemoveSource(id) has returned, the removed task persists no
\* further status change event, invokes no further notification and does not
\* put id back into the cache
C36_RemovedTaskIsSilent ==
    [][\A t \in TaskIds :
         tasks[t].cancelled /\ tasks'[t] # tasks[t] =>
            /\ UNCHANGED <<events, notified>>
            /\ cache[tasks[t].id] = 0 => cache'[tasks[t].id] = 0]_vars

\* C37: whenever the cached current_status of a source goes from offline to
\* online or back, a StatusChange with the old and the new status is persisted
\* and the cached last_change_time is set with the status, to the time of that
\* StatusChange
C37_EveryChangeIsRecorded ==
    [][\A t \in TaskIds :
         LET old == tasks[t].src
             new == tasks'[t].src
         IN {old.status, new.status} = {StatusOffline, StatusOnline} =>
               \E e \in events' :
                   /\ e.id = tasks[t].id
                   /\ e.old = old.status
                   /\ e.new = new.status
                   /\ e.ts = new.lastChange]_vars

\* C38: whenever GetStatus can take the lock, the timer_active flag of its
\* snapshot is true exactly when the one-shot restart timer is armed and has
\* not fired yet
C38_TimerFlagMeansArmed ==
    mu = Free => (GetStatus.timer_active <=> restartTimer.pending)

\* C39: with auto-restart enabled and no limit on the attempts, the
\* supervisor does not stay running and unhealthy forever with no restart
\* timer armed
C39_UnhealthyIsRetried ==
    ~<>[](/\ config.AutoRestartEnabled
          /\ config.AutoRestartMaxAttempts = 0
          /\ bpRunning
          /\ ~healthy
          /\ ~restartTimer.pending)

\* C40: whenever no Set is in progress, the ConfigManager's cache equals the
\* persisted configuration; in particular a Set whose SaveConfig failed has
\* returned an error and left the cache as it was
C40_CacheEqualsPersisted ==
    thr[Writer].pc = "idle" => conf = saved

====
